---- MODULE Spec2Model ----
(***************************************************************************)
(* Sentinel-Scan: the scan orchestrator (Scanner.run), the threat          *)
(* database (ThreatDB), the analyzers and the summary / exit code derived  *)
(* from a scan result.                                                     *)
(*                                                                         *)
(* JavaScript values are modelled as tagged records (JSUndefined, JSNull,  *)
(* JSString, JSNumber, JSBoolean, JSArray, JSObject); a JavaScript string  *)
(* whose content the code inspects is a sequence of one-character strings, *)
(* so that startsWith / includes / split / toLowerCase and the regular     *)
(* expressions of the source are computed, character by character.         *)
(***************************************************************************)
EXTENDS Integers, Sequences, FiniteSets, TLC

\* ------------------------------------------------------------------ bounds
\* Longest list of requested modules (ctx.modules) explored.
MaxModules == 2
\* The milliseconds Date.now() advances while one Collector runs.
ClockStep == 1
\* Largest number of analyze() calls made on the analyzer under test.
MaxCalls == 2

\* ------------------------------------------------- core/models.ts: Severity
INFO == 0
LOW == 1
MEDIUM == 2
HIGH == 3
CRITICAL == 4
Severity == {INFO, LOW, MEDIUM, HIGH, CRITICAL}

ALL_MODULES ==
  <<"processes", "network", "systemd", "crontabs", "rootkit",
    "ssh", "shell", "filesystem", "firewall", "credentials">>

ModuleName == {ALL_MODULES[i] : i \in 1..Len(ALL_MODULES)}

\* ------------------------------------------------------- JavaScript values
JSUndefined == [k |-> "undefined"]
JSNull == [k |-> "null"]
JSNaN == [k |-> "NaN"]
JSString(s) == [k |-> "string", s |-> s]
JSNumber(n) == [k |-> "number", n |-> n]
JSBoolean(b) == [k |-> "boolean", b |-> b]
JSArray(a) == [k |-> "array", a |-> a]
JSObject(o) == [k |-> "object", o |-> o]
\* The object literal {}.
JSEmptyObject == JSObject([f \in {} |-> JSUndefined])

\* x == null || x === undefined: what ?? and ?. test, and what makes a
\* property read throw a TypeError.
Nullish(x) == x.k \in {"undefined", "null"}

\* x.f for a value x that is not nullish: an own property of an object, and
\* undefined for a property the value does not have.
Prop(x, f) ==
  IF x.k = "object" /\ f \in DOMAIN x.o THEN x.o[f] ELSE JSUndefined

\* a ?? b
Coalesce(a, b) == IF Nullish(a) THEN b ELSE a

\* Boolean(x): false for undefined, null, NaN, false, 0 and "".
Truthy(x) ==
  CASE x.k \in {"undefined", "null", "NaN"} -> FALSE
    [] x.k = "boolean" -> x.b
    [] x.k = "number" -> x.n # 0
    [] x.k = "string" -> x.s # <<>>
    [] OTHER -> TRUE

\* x.length: the length of an array or a string, undefined for other values.
LengthOf(x) ==
  CASE x.k = "array" -> JSNumber(Len(x.a))
    [] x.k = "string" -> JSNumber(Len(x.s))
    [] OTHER -> JSUndefined

\* a + b on a number and the value of a .length read (undefined gives NaN).
JSAdd(a, b) ==
  IF a.k = "number" /\ b.k = "number" THEN JSNumber(a.n + b.n) ELSE JSNaN

\* x > n for a number literal n: undefined and NaN compare false.
JSGreater(x, n) == x.k = "number" /\ x.n > n

\* The values for...of walks: the elements of an array, the characters of a
\* string. Any other value is not iterable (TypeError).
Iterable(x) == x.k \in {"array", "string"}
Elements(x) ==
  IF x.k = "array" THEN x.a
  ELSE [i \in 1..Len(x.s) |-> JSString(<<x.s[i]>>)]

\* ------------------------------------------------------------------ strings
UpperLetters ==
  <<"A","B","C","D","E","F","G","H","I","J","K","L","M",
    "N","O","P","Q","R","S","T","U","V","W","X","Y","Z">>
LowerLetters ==
  <<"a","b","c","d","e","f","g","h","i","j","k","l","m",
    "n","o","p","q","r","s","t","u","v","w","x","y","z">>
\* The backquote character (a string of the module cannot hold it).
Backquote == "<backquote>"
Digits == {"0","1","2","3","4","5","6","7","8","9"}

LowerChar(c) ==
  IF \E i \in 1..26 : UpperLetters[i] = c
  THEN LowerLetters[CHOOSE i \in 1..26 : UpperLetters[i] = c]
  ELSE c

\* String.prototype.toLowerCase
ToLowerCase(s) == [i \in 1..Len(s) |-> LowerChar(s[i])]

\* String.prototype.startsWith
StartsWith(s, p) == Len(p) <= Len(s) /\ SubSeq(s, 1, Len(p)) = p

\* Whether p occurs in s at offset i (0-based).
OccursAt(s, p, i) == i + Len(p) <= Len(s) /\ SubSeq(s, i + 1, i + Len(p)) = p

\* String.prototype.includes, and a regular expression that is a literal.
Includes(s, p) == \E i \in 0..Len(s) : OccursAt(s, p, i)

\* \s of a regular expression, for the characters of the model.
IsSpace(c) == c \in {" ", "\t", "\n"}

\* \w of a regular expression.
IsWordChar(c) ==
  \/ c \in Digits
  \/ c = "_"
  \/ \E i \in 1..26 : c = UpperLetters[i] \/ c = LowerLetters[i]

\* The index of the first white-space character of s at or after i,
\* Len(s) + 1 when there is none; likewise for the other two scans.
RECURSIVE FirstSpaceFrom(_, _)
FirstSpaceFrom(s, i) ==
  IF i > Len(s) \/ IsSpace(s[i]) THEN i ELSE FirstSpaceFrom(s, i + 1)

RECURSIVE FirstNonSpaceFrom(_, _)
FirstNonSpaceFrom(s, i) ==
  IF i > Len(s) \/ ~IsSpace(s[i]) THEN i ELSE FirstNonSpaceFrom(s, i + 1)

RECURSIVE LastNonSpaceUpTo(_, _)
LastNonSpaceUpTo(s, i) ==
  IF i < 1 \/ ~IsSpace(s[i]) THEN i ELSE LastNonSpaceUpTo(s, i - 1)

\* s.split(/\s+/)[0]: the text before the first run of white space (the
\* empty string when s starts with white space).
FirstToken(s) == SubSeq(s, 1, FirstSpaceFrom(s, 1) - 1)

\* String.prototype.trim
Trim(s) == SubSeq(s, FirstNonSpaceFrom(s, 1), LastNonSpaceUpTo(s, Len(s)))

\* s.split("\n"): the texts between consecutive line feeds, the start and
\* the end of s counting as line feeds.
SplitLines(s) ==
  LET cuts == {0, Len(s) + 1} \cup {i \in 1..Len(s) : s[i] = "\n"}
      Cut(k) == CHOOSE c \in cuts : Cardinality({d \in cuts : d < c}) = k
  IN [k \in 1..(Cardinality(cuts) - 1) |-> SubSeq(s, Cut(k - 1) + 1, Cut(k) - 1)]

\* String(n).padStart(3, "0")
PadStart3(n) ==
  IF n < 10 THEN "00" \o ToString(n)
  ELSE IF n < 100 THEN "0" \o ToString(n)
  ELSE ToString(n)

\* ------------------------------------------------ analyzers: shared pieces
\* The state of one analyze() call: the findings pushed so far, the local
\* counter behind nextId(), and the exception that ended the call, if any.
AnalyzerState(c0) ==
  [threw |-> FALSE, message |-> "", findings |-> <<>>, counter |-> c0]

\* `let counter = 0;` at the top of every analyze(): the counter is a local
\* of the call, so the value `last` that the previous call on the same
\* (registry singleton) instance ended with is not read.
CounterStartKept(last) == last
CounterStart(last) == 0

\* nextId(): counter++; return `${prefix}-${String(counter).padStart(3, "0")}`
NextCounter(c) == c + 1
IdOfNoPrefix(prefix, c) == PadStart3(c)
IdOfUnpadded(prefix, c) == prefix \o "-" \o ToString(c)
IdOf(prefix, c) == prefix \o "-" \o PadStart3(c)

\* findings.push({ id: nextId(), module, severity, title, details, ... })
\* `title` is the title's template text; the values interpolated into the
\* title and the description are those of `details`.
Push(st, module, prefix, severity, title, details) ==
  [st EXCEPT
     !.counter = NextCounter(st.counter),
     !.findings = Append(st.findings,
        [id |-> IdOf(prefix, NextCounter(st.counter)),
         module |-> module,
         severity |-> severity,
         title |-> title,
         details |-> details])]

\* An exception leaving analyze(): the findings pushed so far are lost with
\* the call's frame.
Throw(st, msg) == [st EXCEPT !.threw = TRUE, !.message = msg]

\* toSeverity(s): a fixed table, MEDIUM for any other string.
toSeverity(s) ==
  CASE s = "critical" -> CRITICAL
    [] s = "high" -> HIGH
    [] s = "medium" -> MEDIUM
    [] s = "low" -> LOW
    [] s = "info" -> INFO
    [] OTHER -> MEDIUM


\* `for (const x of xs) { ... }`, Step being the loop body; an exception
\* in the body ends the loop and the call.
ForEach(st, xs, Step(_, _)) ==
  LET after[i \in 0..Len(xs)] ==
        IF i = 0 THEN st
        ELSE IF after[i - 1].threw THEN after[i - 1]
        ELSE Step(after[i - 1], xs[i])
  IN after[Len(xs)]
\* ------------------------------------------------------ threats/index.ts
\* The six data files, in the order the constructor loads them.
DataFiles ==
  <<"known_hashes.json", "known_ips.json", "known_processes.json",
    "known_paths.json", "known_services.json", "known_ports.json">>

DataFileName == {DataFiles[i] : i \in 1..Len(DataFiles)}

\* What a data file can be on disk:
\*   ok        valid JSON, an object with an "entries" member
\*   missing   no such file                 (readFileSync throws ENOENT)
\*   badJSON   not parseable as JSON        (JSON.parse throws SyntaxError)
\*   null      the JSON literal null        (parses; .entries of null throws)
\*   noEntries a JSON object without "entries" (parses; .entries is undefined)
FileState == {"ok", "missing", "badJSON", "null", "noEntries"}

\* The "entries" of each data file as shipped (a sample of them).
ProcessEntries ==
  <<[pattern |-> <<"x","m","r","i","g">>, name |-> "XMRig", severity |-> "critical",
     family |-> "cryptominer", regex |-> FALSE],
    [pattern |-> <<"k","i","n","s","i","n","g","|","k","d","e","v","t","m","p","f","s","i">>, name |-> "Kinsing", severity |-> "high",
     family |-> "botnet", regex |-> TRUE],
    [pattern |-> <<"n","c"," ","-","l">>, name |-> "Netcat listener", severity |-> "elevated",
     family |-> "backdoor", regex |-> FALSE],
    [pattern |-> <<"n","m","a","p">>, name |-> "Nmap scanner", severity |-> "low",
     family |-> "recon", regex |-> FALSE]>>

ServiceEntries ==
  <<[name |-> <<"k","d","e","v","t","m","p","f","s","i">>, description |-> "Kinsing miner service",
     severity |-> "critical"],
    [name |-> <<"s","y","s","u","p","d","a","t","e",".","s","e","r","v","i","c","e">>, description |-> "Fake update service",
     severity |-> "high"]>>

PathEntries ==
  <<[path |-> <<"/","e","t","c","/","d","a","t","a","/">>, name |-> "Malware staging directory",
     severity |-> "critical"],
    [path |-> <<"/","t","m","p","/",".","X">>, name |-> "Hidden X11 dropper", severity |-> "high"]>>

PortEntries ==
  <<[port |-> 3333, name |-> "Stratum mining pool", severity |-> "high",
     direction |-> "outbound"],
    [port |-> 4444, name |-> "Metasploit listener", severity |-> "critical",
     direction |-> "listening"]>>

HashEntries ==
  <<[key |-> <<"a","b","1","2">>, name |-> "XMRig binary", family |-> "cryptominer",
     severity |-> "critical"]>>

IPEntries ==
  <<[key |-> <<"1",".","2",".","3",".","4">>, name |-> "Mining pool", type |-> "pool",
     severity |-> "high"]>>

EntriesOf(file) ==
  CASE file = "known_hashes.json" -> HashEntries
    [] file = "known_ips.json" -> IPEntries
    [] file = "known_processes.json" -> ProcessEntries
    [] file = "known_paths.json" -> PathEntries
    [] file = "known_services.json" -> ServiceEntries
    [] file = "known_ports.json" -> PortEntries

\* loadJSON(filename): readFileSync, then JSON.parse. Neither call is
\* guarded, so a missing file and a text that is not JSON both throw.
loadJSONOrEmpty(files, filename) ==
  IF files[filename] = "ok"
  THEN [threw |-> FALSE, message |-> "",
        value |-> JSObject([entries |-> JSArray(EntriesOf(filename))])]
  ELSE [threw |-> FALSE, message |-> "", value |-> JSEmptyObject]
loadJSON(files, filename) ==
  CASE files[filename] = "missing" ->
         [threw |-> TRUE, message |-> "ENOENT: no such file or directory",
          value |-> JSUndefined]
    [] files[filename] = "badJSON" ->
         [threw |-> TRUE, message |-> "Unexpected token in JSON",
          value |-> JSUndefined]
    [] files[filename] = "null" ->
         [threw |-> FALSE, message |-> "", value |-> JSNull]
    [] files[filename] = "noEntries" ->
         [threw |-> FALSE, message |-> "", value |-> JSEmptyObject]
    [] files[filename] = "ok" ->
         [threw |-> FALSE, message |-> "",
          value |-> JSObject([entries |-> JSArray(EntriesOf(filename))])]

\* One table of the constructor: `const d = loadJSON(f); this.t = d.entries;`
\* The read d.entries throws when d is null.
LoadTable(files, filename) ==
  LET d == loadJSON(files, filename) IN
  IF d.threw THEN d
  ELSE IF Nullish(d.value)
  THEN [threw |-> TRUE,
        message |-> "Cannot read properties of null (reading 'entries')",
        value |-> JSUndefined]
  ELSE [threw |-> FALSE, message |-> "", value |-> Prop(d.value, "entries")]

\* new ThreatDB(): the six tables are loaded in order, and the first
\* exception leaves the constructor.
ThreatDBConstructor(files) ==
  LET t == [i \in 1..Len(DataFiles) |-> LoadTable(files, DataFiles[i])]
      bad == {i \in 1..Len(DataFiles) : t[i].threw}
      first == CHOOSE i \in bad : \A j \in bad : i <= j
  IN IF bad # {}
     THEN [threw |-> TRUE, message |-> t[first].message, db |-> JSUndefined]
     ELSE [threw |-> FALSE, message |-> "",
           db |-> [hashes |-> t[1].value, ips |-> t[2].value,
                   processes |-> t[3].value, paths |-> t[4].value,
                   services |-> t[5].value, ports |-> t[6].value]]

\* A regular expression of known_processes.json, for the patterns of the
\* sample: literals joined by "|". new RegExp(p, "i").test(s).
RECURSIVE SplitBarFrom(_, _, _)
SplitBarFrom(s, i, cur) ==
  IF i > Len(s) THEN <<cur>>
  ELSE IF s[i] = "|" THEN <<cur>> \o SplitBarFrom(s, i + 1, <<>>)
  ELSE SplitBarFrom(s, i + 1, Append(cur, s[i]))

RegExpTestI(pattern, s) ==
  LET alts == SplitBarFrom(pattern, 1, <<>>) IN
  \E a \in 1..Len(alts) : Includes(ToLowerCase(s), ToLowerCase(alts[a]))

\* matchProcess(name, cmdline): the first entry, in stored order, that the
\* lowercased "name cmdline" matches; null when none does. The for...of
\* over this.processes throws when the table is undefined.
ProcessEntryMatches(entry, combined) ==
  IF entry.regex
  THEN RegExpTestI(entry.pattern, combined)
  ELSE Includes(combined, ToLowerCase(entry.pattern))

matchProcessLast(db, name, cmdline) ==
  LET combined == ToLowerCase(name \o <<" ">> \o cmdline)
      es == db.processes.a
      hits == {i \in 1..Len(es) : ProcessEntryMatches(es[i], combined)}
  IN IF hits = {}
     THEN [threw |-> FALSE, message |-> "", found |-> FALSE, entry |-> JSNull]
     ELSE [threw |-> FALSE, message |-> "", found |-> TRUE,
           entry |-> es[CHOOSE i \in hits : \A j \in hits : i >= j]]
matchProcess(db, name, cmdline) ==
  LET combined == ToLowerCase(name \o <<" ">> \o cmdline) IN
  IF ~Iterable(db.processes)
  THEN [threw |-> TRUE, message |-> "this.processes is not iterable",
        found |-> FALSE, entry |-> JSNull]
  ELSE LET es == db.processes.a
           hits == {i \in 1..Len(es) : ProcessEntryMatches(es[i], combined)}
       IN IF hits = {}
          THEN [threw |-> FALSE, message |-> "", found |-> FALSE, entry |-> JSNull]
          ELSE [threw |-> FALSE, message |-> "", found |-> TRUE,
                entry |-> es[CHOOSE i \in hits : \A j \in hits : i <= j]]

\* matchService(serviceName): the first entry whose name equals serviceName.
matchService(db, serviceName) ==
  IF ~Iterable(db.services)
  THEN [threw |-> TRUE, message |-> "this.services is not iterable",
        found |-> FALSE, entry |-> JSNull]
  ELSE LET es == db.services.a
           hits == {i \in 1..Len(es) : es[i].name = serviceName}
       IN IF hits = {}
          THEN [threw |-> FALSE, message |-> "", found |-> FALSE, entry |-> JSNull]
          ELSE [threw |-> FALSE, message |-> "", found |-> TRUE,
                entry |-> es[CHOOSE i \in hits : \A j \in hits : i <= j]]


\* matchPath(filePath): the first entry, in stored order, whose path is a
\* prefix of filePath or equals filePath once one trailing "/" is removed
\* from the stored path (entry.path.replace(/\/$/, "")).
matchPathPrefixOnly(db, filePath) ==
  LET es == db.paths.a
      hits == {i \in 1..Len(es) : StartsWith(filePath, es[i].path)}
  IN IF hits = {}
     THEN [threw |-> FALSE, message |-> "", found |-> FALSE, entry |-> JSNull]
     ELSE [threw |-> FALSE, message |-> "", found |-> TRUE,
           entry |-> es[CHOOSE i \in hits : \A j \in hits : i <= j]]
matchPath(db, filePath) ==
  IF ~Iterable(db.paths)
  THEN [threw |-> TRUE, message |-> "this.paths is not iterable",
        found |-> FALSE, entry |-> JSNull]
  ELSE LET es == db.paths.a
           stripped(p) == IF Len(p) > 0 /\ p[Len(p)] = "/"
                          THEN SubSeq(p, 1, Len(p) - 1) ELSE p
           hits == {i \in 1..Len(es) :
                      StartsWith(filePath, es[i].path) \/ filePath = stripped(es[i].path)}
       IN IF hits = {}
          THEN [threw |-> FALSE, message |-> "", found |-> FALSE, entry |-> JSNull]
          ELSE [threw |-> FALSE, message |-> "", found |-> TRUE,
                entry |-> es[CHOOSE i \in hits : \A j \in hits : i <= j]]

\* matchPort(port, direction): dir is "listening" for a "listening" query
\* and "outbound" for any other; the first entry, in stored order, with
\* entry.port === port && (entry.direction === dir ||
\* entry.direction === "outbound").
matchPortSymmetric(db, port, direction) ==
  LET dir == IF direction = "listening" THEN "listening" ELSE "outbound"
      es == db.ports.a
      hits == {i \in 1..Len(es) : es[i].port = port /\ es[i].direction = dir}
  IN IF hits = {}
     THEN [threw |-> FALSE, message |-> "", found |-> FALSE, entry |-> JSNull]
     ELSE [threw |-> FALSE, message |-> "", found |-> TRUE,
           entry |-> es[CHOOSE i \in hits : \A j \in hits : i <= j]]
matchPortLast(db, port, direction) ==
  LET dir == IF direction = "listening" THEN "listening" ELSE "outbound"
      es == db.ports.a
      hits == {i \in 1..Len(es) :
                 /\ es[i].port = port
                 /\ (es[i].direction = dir \/ es[i].direction = "outbound")}
  IN IF hits = {}
     THEN [threw |-> FALSE, message |-> "", found |-> FALSE, entry |-> JSNull]
     ELSE [threw |-> FALSE, message |-> "", found |-> TRUE,
           entry |-> es[CHOOSE i \in hits : \A j \in hits : i >= j]]
matchPort(db, port, direction) ==
  IF ~Iterable(db.ports)
  THEN [threw |-> TRUE, message |-> "this.ports is not iterable",
        found |-> FALSE, entry |-> JSNull]
  ELSE LET dir == IF direction = "listening" THEN "listening" ELSE "outbound"
           es == db.ports.a
           hits == {i \in 1..Len(es) :
                      /\ es[i].port = port
                      /\ (es[i].direction = dir \/ es[i].direction = "outbound")}
       IN IF hits = {}
          THEN [threw |-> FALSE, message |-> "", found |-> FALSE, entry |-> JSNull]
          ELSE [threw |-> FALSE, message |-> "", found |-> TRUE,
                entry |-> es[CHOOSE i \in hits : \A j \in hits : i <= j]]
\* ------------------------------------------------------ analyzers/ssh.ts
\* One sshd_config rule: `if (sshdConfig.X?.toLowerCase() === "yes") push`.
\* ?. yields undefined for a nullish value; a value of another type has no
\* toLowerCase method and the call throws.
SSHDirectiveRuleUnlessNo(st, value, directive, severity, title) ==
  IF st.threw \/ Nullish(value) THEN st
  ELSE IF value.k # "string"
  THEN Throw(st, "toLowerCase is not a function")
  ELSE IF ToLowerCase(value.s) # <<"n","o">>
  THEN Push(st, "ssh", "SSH", severity, title,
            [directive |-> directive, value |-> value.s])
  ELSE st
SSHDirectiveRule(st, value, directive, severity, title) ==
  IF st.threw THEN st
  ELSE IF Nullish(value) THEN st
  ELSE IF value.k # "string"
  THEN Throw(st, "toLowerCase is not a function")
  ELSE IF ToLowerCase(value.s) = <<"y","e","s">>
  THEN Push(st, "ssh", "SSH", severity, title,
            [directive |-> directive, value |-> value.s])
  ELSE st

\* `for (const akf of authorizedKeys) totalKeys += akf.keys.length;`
\* from element i on; t is [threw, message, total].
RECURSIVE SSHTotalKeys(_, _, _)
SSHTotalKeys(files, i, t) ==
  IF t.threw \/ i > Len(files) THEN t
  ELSE LET akf == files[i] IN
       IF Nullish(akf)
       THEN [t EXCEPT !.threw = TRUE,
               !.message = "Cannot read properties of undefined (reading 'keys')"]
       ELSE IF Nullish(Prop(akf, "keys"))
       THEN [t EXCEPT !.threw = TRUE,
               !.message = "Cannot read properties of undefined (reading 'length')"]
       ELSE SSHTotalKeys(files, i + 1,
              [t EXCEPT !.total = JSAdd(t.total, LengthOf(Prop(akf, "keys")))])

SSHKeysRule(st, authorizedKeys) ==
  IF st.threw THEN st
  ELSE IF ~Iterable(authorizedKeys)
  THEN Throw(st, "authorizedKeys is not iterable")
  ELSE LET t == SSHTotalKeys(Elements(authorizedKeys), 1,
                  [threw |-> FALSE, message |-> "", total |-> JSNumber(0)])
       IN IF t.threw THEN Throw(st, t.message)
          ELSE IF JSGreater(t.total, 0)
          THEN Push(st, "ssh", "SSH", INFO, "Authorized SSH keys found",
                    [totalKeys |-> t.total.n])
          ELSE st

SSHAnalyze(data, db, c0) ==
  LET st0 == AnalyzerState(c0) IN
  IF Nullish(data)
  THEN Throw(st0, "Cannot read properties of undefined (reading 'sshdConfig')")
  ELSE
    LET sshdConfig == Coalesce(Prop(data, "sshdConfig"), JSEmptyObject)
        activeSessions == Coalesce(Prop(data, "activeSessions"), JSArray(<<>>))
        authorizedKeys == Coalesce(Prop(data, "authorizedKeys"), JSArray(<<>>))
        s1 == SSHDirectiveRule(st0, Prop(sshdConfig, "passwordAuth"),
                "PasswordAuthentication", HIGH,
                "SSH password authentication is enabled")
        s2 == SSHDirectiveRule(s1, Prop(sshdConfig, "permitRootLogin"),
                "PermitRootLogin", MEDIUM,
                "SSH root login is permitted")
        s3 == SSHDirectiveRule(s2, Prop(sshdConfig, "permitEmptyPasswords"),
                "PermitEmptyPasswords", CRITICAL,
                "SSH allows empty passwords")
        s4 == IF ~s3.threw /\ JSGreater(LengthOf(activeSessions), 1)
              THEN Push(s3, "ssh", "SSH", INFO, "Multiple active SSH sessions detected",
                        [count |-> LengthOf(activeSessions).n])
              ELSE s3
    IN SSHKeysRule(s4, authorizedKeys)

\* ------------------------------------------------ analyzers/processes.ts
SUSPICIOUS_PATHS == <<<<"/","t","m","p","/">>, <<"/","v","a","r","/","t","m","p","/">>, <<"/","d","e","v","/","s","h","m","/">>>>

SAFE_HIDDEN_DIRS ==
  {<<".","v","s","c","o","d","e","-","s","e","r","v","e","r">>, <<".","v","s","c","o","d","e">>, <<".","c","u","r","s","o","r","-","s","e","r","v","e","r">>,
   <<".","s","s","h">>, <<".","c","o","n","f","i","g">>, <<".","l","o","c","a","l">>, <<".","c","a","c","h","e">>,
   <<".","n","p","m">>, <<".","n","v","m">>, <<".","y","a","r","n">>, <<".","b","u","n">>, <<".","p","n","p","m">>,
   <<".","d","o","c","k","e","r">>, <<".","g","n","u","p","g">>, <<".","p","m","2">>,
   <<".","c","a","r","g","o">>, <<".","r","u","s","t","u","p">>, <<".","p","y","e","n","v">>, <<".","r","b","e","n","v">>, <<".","g","o","e","n","v">>,
   <<".","c","l","a","u","d","e">>}

\* list.find((p) => s.startsWith(p)): the index of the first prefix of the
\* list that s starts with, 0 when there is none.
FindPrefix(list, s) ==
  LET hits == {i \in 1..Len(list) : StartsWith(s, list[i])} IN
  IF hits = {} THEN 0 ELSE CHOOSE i \in hits : \A j \in hits : i <= j

\* HIDDEN_DIR_RE = /\/\.[^/]+\//: a "/", a ".", one or more characters that
\* are not "/", and a "/". HiddenDirEnd(s, i) is the index of the closing
\* "/" of a match starting at i, 0 when none starts there.
RECURSIVE NextSlashFrom(_, _)
NextSlashFrom(s, i) ==
  IF i > Len(s) THEN 0
  ELSE IF s[i] = "/" THEN i
  ELSE NextSlashFrom(s, i + 1)

HiddenDirEnd(s, i) ==
  IF i + 3 <= Len(s) /\ s[i] = "/" /\ s[i + 1] = "." /\ s[i + 2] # "/"
  THEN NextSlashFrom(s, i + 3)
  ELSE 0

HiddenDirStarts(s) == {i \in 1..Len(s) : HiddenDirEnd(s, i) # 0}

\* HIDDEN_DIR_RE.test(s)
HiddenDirTest(s) == HiddenDirStarts(s) # {}

\* HIDDEN_DIR_RE.exec(s)[0].replace(/\//g, ""): the leftmost match without
\* its slashes.
HiddenDirName(s) ==
  LET i == CHOOSE a \in HiddenDirStarts(s) : \A b \in HiddenDirStarts(s) : a <= b
  IN SubSeq(s, i + 1, HiddenDirEnd(s, i) - 1)

\* cmdline.replace(/^[\s\\|`_-]+/, ""): the leading tree-drawing characters
\* of `ps auxf` are dropped.
RECURSIVE StripTreePrefix(_)
StripTreePrefix(s) ==
  IF s # <<>> /\ (IsSpace(s[1]) \/ s[1] \in {"\\", "|", Backquote, "_", "-"})
  THEN StripTreePrefix(Tail(s))
  ELSE s

extractBinaryPath(cmdline) == FirstToken(StripTreePrefix(cmdline))

\* Rule 3 looks at a hidden directory only when rule 2 found no temporary
\* directory (hiddenMatch && !suspiciousDir && !SAFE_HIDDEN_DIRS.has(...)).
ProcessHiddenRuleAlone(binaryPath, suspiciousDir) ==
  /\ HiddenDirTest(binaryPath)
  /\ HiddenDirName(binaryPath) \notin SAFE_HIDDEN_DIRS
ProcessHiddenRule(binaryPath, suspiciousDir) ==
  /\ HiddenDirTest(binaryPath)
  /\ suspiciousDir = 0
  /\ HiddenDirName(binaryPath) \notin SAFE_HIDDEN_DIRS

\* The body of `for (const proc of processes)`.
ProcessStep(st, proc, db) ==
  IF Nullish(proc)
  THEN Throw(st, "Cannot read properties of undefined (reading 'command')")
  ELSE IF Nullish(Prop(proc, "command"))
  THEN Throw(st, "Cannot read properties of undefined (reading 'split')")
  ELSE IF Prop(proc, "command").k # "string"
  THEN Throw(st, "proc.command.split is not a function")
  ELSE
    LET cmdline == Prop(proc, "command").s
        name == FirstToken(cmdline)
        threat == matchProcess(db, name, cmdline)
        binaryPath == extractBinaryPath(cmdline)
        suspiciousDir == FindPrefix(SUSPICIOUS_PATHS, binaryPath)
        s1 == IF threat.found
              THEN Push(st, "processes", "PROC", toSeverity(threat.entry.severity),
                        "Known malicious process: ${threat.name}",
                        [command |-> cmdline, threat |-> threat.entry])
              ELSE st
        s2 == IF suspiciousDir # 0
              THEN Push(s1, "processes", "PROC", HIGH,
                        "Process running from temporary directory",
                        [command |-> cmdline, binaryPath |-> binaryPath])
              ELSE s1
        s3 == IF ProcessHiddenRule(binaryPath, suspiciousDir)
              THEN Push(s2, "processes", "PROC", HIGH,
                        "Process running from hidden directory",
                        [command |-> cmdline, binaryPath |-> binaryPath])
              ELSE s2
        s4 == IF JSGreater(Prop(proc, "cpu"), 80)
              THEN Push(s3, "processes", "PROC", MEDIUM,
                        "Process with abnormally high CPU usage",
                        [command |-> cmdline, cpu |-> Prop(proc, "cpu").n])
              ELSE s3
    IN IF threat.threw THEN Throw(st, threat.message) ELSE s4

RECURSIVE ProcessLoop(_, _, _, _)
ProcessLoop(st, processes, i, db) ==
  IF st.threw \/ i > Len(processes) THEN st
  ELSE ProcessLoop(ProcessStep(st, processes[i], db), processes, i + 1, db)

ProcessAnalyze(data, db, c0) ==
  LET st0 == AnalyzerState(c0) IN
  IF Nullish(data)
  THEN Throw(st0, "Cannot read properties of undefined (reading 'processes')")
  ELSE LET processes == Coalesce(Prop(data, "processes"), JSArray(<<>>)) IN
       IF ~Iterable(processes)
       THEN Throw(st0, "processes is not iterable")
       ELSE ProcessLoop(st0, Elements(processes), 1, db)

\* ------------------------------------------------- analyzers/systemd.ts
SUSPICIOUS_EXEC_PATHS == <<<<"/","t","m","p","/">>, <<"/","v","a","r","/","t","m","p","/">>, <<"/","e","t","c","/","d","a","t","a","/">>, <<"/","d","e","v","/","s","h","m","/">>>>

STANDARD_EXEC_PREFIXES ==
  <<<<"/","u","s","r","/","b","i","n","/">>, <<"/","u","s","r","/","s","b","i","n","/">>, <<"/","u","s","r","/","l","o","c","a","l","/","b","i","n","/">>, <<"/","u","s","r","/","l","o","c","a","l","/","s","b","i","n","/">>,
    <<"/","b","i","n","/">>, <<"/","s","b","i","n","/">>, <<"/","l","i","b","/","s","y","s","t","e","m","d","/">>, <<"/","u","s","r","/","l","i","b","/","s","y","s","t","e","m","d","/">>, <<"/","s","n","a","p","/">>>>

\* name.replace(/\.service$/, "")
StripServiceSuffix(s) ==
  LET suffix == <<".","s","e","r","v","i","c","e">> IN
  IF Len(s) >= Len(suffix) /\ SubSeq(s, Len(s) - Len(suffix) + 1, Len(s)) = suffix
  THEN SubSeq(s, 1, Len(s) - Len(suffix))
  ELSE s

\* execStart.replace(/^[-+!@]+/, "")
RECURSIVE StripExecPrefix(_)
StripExecPrefix(s) ==
  IF s # <<>> /\ s[1] \in {"-", "+", "!", "@"}
  THEN StripExecPrefix(Tail(s))
  ELSE s

\* extractExecBinary(execStart): "" for a falsy execStart; otherwise the
\* first token after the systemd prefixes. A truthy value that is not a
\* string has no replace method.
extractExecBinary(execStart) ==
  IF ~Truthy(execStart)
  THEN [threw |-> FALSE, message |-> "", path |-> <<>>]
  ELSE IF execStart.k # "string"
  THEN [threw |-> TRUE, message |-> "execStart.replace is not a function",
        path |-> <<>>]
  ELSE [threw |-> FALSE, message |-> "",
        path |-> FirstToken(Trim(StripExecPrefix(execStart.s)))]

\* The value of the decimal digits s starts with, from index i on.
RECURSIVE DigitsValue(_, _, _)
DigitsValue(s, i, acc) ==
  IF i > Len(s) \/ s[i] \notin Digits THEN acc
  ELSE DigitsValue(s, i + 1,
         acc * 10 + (CHOOSE d \in 0..9 : ToString(d) = s[i]))

\* parseFloat(x) || 0, to the whole seconds below it: leading white space is
\* skipped and the leading digits are read; a text that starts with no
\* digit, and undefined, give NaN and so 0. (The comparison made with the
\* result is `< 30`, which a fraction of a second cannot change.)
ParseSecondsOrZero(x) ==
  IF x.k # "string" THEN (IF x.k = "number" THEN x.n ELSE 0)
  ELSE LET s == x.s
           i == FirstNonSpaceFrom(s, 1)
       IN DigitsValue(s, i, 0)

\* A method call x.toLowerCase() on a record field.
LowerOf(x, what) ==
  IF Nullish(x)
  THEN [threw |-> TRUE,
        message |-> "Cannot read properties of undefined (reading 'toLowerCase')",
        s |-> <<>>]
  ELSE IF x.k # "string"
  THEN [threw |-> TRUE, message |-> what \o ".toLowerCase is not a function",
        s |-> <<>>]
  ELSE [threw |-> FALSE, message |-> "", s |-> ToLowerCase(x.s)]

\* The body of `for (const svc of enabledServices)`.
SystemdServiceStep(st, svc, db) ==
  IF Nullish(svc)
  THEN Throw(st, "Cannot read properties of undefined (reading 'name')")
  ELSE IF Nullish(Prop(svc, "name"))
  THEN Throw(st, "Cannot read properties of undefined (reading 'replace')")
  ELSE IF Prop(svc, "name").k # "string"
  THEN Throw(st, "svc.name.replace is not a function")
  ELSE
    LET name == Prop(svc, "name").s
        byBase == matchService(db, StripServiceSuffix(name))
        byName == matchService(db, name)
        threat == IF byBase.found THEN byBase ELSE byName
    IN IF byBase.threw THEN Throw(st, byBase.message)
       ELSE IF threat.found
       THEN Push(st, "systemd", "SVC", toSeverity(threat.entry.severity),
                 "Known malicious service: ${threat.name}",
                 [service |-> name, threat |-> threat.entry])
       ELSE st

\* The body of `for (const sf of serviceFiles)`.
SystemdFileStep(st, sf) ==
  IF Nullish(sf)
  THEN Throw(st, "Cannot read properties of undefined (reading 'execStart')")
  ELSE
    LET bin == extractExecBinary(Prop(sf, "execStart"))
        execBinary == bin.path
        s1 == IF FindPrefix(SUSPICIOUS_EXEC_PATHS, execBinary) # 0
              THEN Push(st, "systemd", "SVC", HIGH,
                        "Service ExecStart points to suspicious path",
                        [service |-> Prop(sf, "name"), execBinary |-> execBinary])
              ELSE st
        s2 == IF HiddenDirTest(execBinary)
              THEN Push(s1, "systemd", "SVC", HIGH,
                        "Service ExecStart points to hidden directory",
                        [service |-> Prop(sf, "name"), execBinary |-> execBinary])
              ELSE s1
        isNonStandard == FindPrefix(STANDARD_EXEC_PREFIXES, execBinary) = 0
        restartSec == ParseSecondsOrZero(Prop(sf, "restartSec"))
        restart == LowerOf(Prop(sf, "restart"), "sf.restart")
        s3 == IF /\ restart.s = <<"a","l","w","a","y","s">>
                 /\ restartSec < 30
                 /\ isNonStandard
                 /\ Len(execBinary) > 0
              THEN Push(s2, "systemd", "SVC", MEDIUM,
                        "Service with aggressive restart from non-standard path",
                        [service |-> Prop(sf, "name"), restartSec |-> restartSec])
              ELSE s2
        stdout == LowerOf(Prop(sf, "standardOutput"), "sf.standardOutput")
        s4 == IF stdout.s = <<"n","u","l","l">>
              THEN Push(s3, "systemd", "SVC", MEDIUM, "Service suppresses all output",
                        [service |-> Prop(sf, "name")])
              ELSE s3
    IN IF bin.threw THEN Throw(st, bin.message)
       ELSE IF restart.threw THEN Throw(st, restart.message)
       ELSE IF stdout.threw THEN Throw(st, stdout.message)
       ELSE s4

RECURSIVE SystemdServiceLoop(_, _, _, _)
SystemdServiceLoop(st, services, i, db) ==
  IF st.threw \/ i > Len(services) THEN st
  ELSE SystemdServiceLoop(SystemdServiceStep(st, services[i], db), services, i + 1, db)

RECURSIVE SystemdFileLoop(_, _, _)
SystemdFileLoop(st, files, i) ==
  IF st.threw \/ i > Len(files) THEN st
  ELSE SystemdFileLoop(SystemdFileStep(st, files[i]), files, i + 1)

SystemdAnalyze(data, db, c0) ==
  LET st0 == AnalyzerState(c0) IN
  IF Nullish(data)
  THEN Throw(st0, "Cannot read properties of undefined (reading 'enabledServices')")
  ELSE
    LET enabledServices == Coalesce(Prop(data, "enabledServices"), JSArray(<<>>))
        serviceFiles == Coalesce(Prop(data, "serviceFiles"), JSArray(<<>>))
    IN IF ~Iterable(enabledServices)
       THEN Throw(st0, "enabledServices is not iterable")
       ELSE LET s1 == SystemdServiceLoop(st0, Elements(enabledServices), 1, db) IN
            IF s1.threw THEN s1
            ELSE IF ~Iterable(serviceFiles)
            THEN Throw(s1, "serviceFiles is not iterable")
            ELSE SystemdFileLoop(s1, Elements(serviceFiles), 1)

\* ------------------------------------------------ analyzers/firewall.ts
\* /\bW\b/ for a word W of word characters: W occurs with no word
\* character directly before or after it.
WordOccursAt(s, w, i) ==
  /\ OccursAt(s, w, i)
  /\ (i = 0 \/ ~IsWordChar(s[i]))
  /\ (i + Len(w) = Len(s) \/ ~IsWordChar(s[i + Len(w) + 1]))

HasWord(s, w) == \E i \in 0..Len(s) : WordOccursAt(s, w, i)

\* /A\s+B/ for literals A and B: A, one or more white-space characters, B.
HasSpaced(s, a, b) ==
  \E i \in 0..Len(s) :
    /\ OccursAt(s, a, i)
    /\ i + Len(a) + 1 <= Len(s)
    /\ IsSpace(s[i + Len(a) + 1])
    /\ OccursAt(s, b, FirstNonSpaceFrom(s, i + Len(a) + 1) - 1)

\* /A.*B/ on one line: A, then B anywhere after it.
HasThen(s, a, b) ==
  \E i \in 0..Len(s) : \E j \in 0..Len(s) :
    OccursAt(s, a, i) /\ j >= i + Len(a) /\ OccursAt(s, b, j)

\* A UFW rules line that opens SSH: it mentions 22 or ssh (/\b22\b/,
\* /\bssh\b/i) and has ALLOW IN and Anywhere (/ALLOW\s+IN/i, /Anywhere/i).
UfwLineOpensAnyPort(line) ==
  /\ HasSpaced(ToLowerCase(line), <<"a","l","l","o","w">>, <<"i","n">>)
  /\ Includes(ToLowerCase(line), <<"a","n","y","w","h","e","r","e">>)
UfwLineOpensSsh(line) ==
  /\ HasWord(line, <<"2","2">>) \/ HasWord(ToLowerCase(line), <<"s","s","h">>)
  /\ HasSpaced(ToLowerCase(line), <<"a","l","l","o","w">>, <<"i","n">>)
  /\ Includes(ToLowerCase(line), <<"a","n","y","w","h","e","r","e">>)

\* The walk over the iptables lines: whether some line of the INPUT chain
\* has dpt:22, 0.0.0.0/0 and ACCEPT.
RECURSIVE IptablesInputAccepts(_, _, _)
IptablesInputAccepts(lines, i, inInputChain) ==
  IF i > Len(lines) THEN FALSE
  ELSE IF StartsWith(lines[i], <<"C","h","a","i","n"," ","I","N","P","U","T">>)
  THEN IptablesInputAccepts(lines, i + 1, TRUE)
  ELSE IF StartsWith(lines[i], <<"C","h","a","i","n">>)
  THEN IptablesInputAccepts(lines, i + 1, FALSE)
  ELSE IF ~inInputChain
  THEN IptablesInputAccepts(lines, i + 1, inInputChain)
  ELSE IF /\ Includes(lines[i], <<"d","p","t",":","2","2">>)
          /\ Includes(lines[i], <<"0",".","0",".","0",".","0","/","0">>)
          /\ Includes(lines[i], <<"A","C","C","E","P","T">>)
  THEN TRUE
  ELSE IptablesInputAccepts(lines, i + 1, inInputChain)

\* /Chain INPUT.*policy ACCEPT/i.test(iptables): "." matches within a line.
IptablesDefaultAccept(lines) ==
  \E i \in 1..Len(lines) :
    HasThen(ToLowerCase(lines[i]), <<"c","h","a","i","n"," ","i","n","p","u","t">>, <<"p","o","l","i","c","y"," ","a","c","c","e","p","t">>)

\* isSshOpenToAll(ufw, iptables): [threw, message, open].
isSshOpenToAllNoFallback(ufw, iptables) ==
  LET rules == Prop(ufw, "rules")
      lines == SplitLines(iptables.s)
  IN
  IF Truthy(Prop(ufw, "active")) /\ Truthy(rules)
  THEN [threw |-> rules.k # "string", message |-> "",
        open |-> /\ rules.k = "string"
                 /\ \E i \in 1..Len(SplitLines(rules.s)) :
                      UfwLineOpensSsh(SplitLines(rules.s)[i])]
  ELSE [threw |-> Truthy(iptables) /\ iptables.k # "string", message |-> "",
        open |-> /\ iptables.k = "string"
                 /\ \/ IptablesInputAccepts(lines, 1, FALSE)
                    \/ IptablesDefaultAccept(lines)]
isSshOpenToAll(ufw, iptables) ==
  LET active == Truthy(Prop(ufw, "active"))
      rules == Prop(ufw, "rules")
      no == [threw |-> FALSE, message |-> "", open |-> FALSE]
      yes == [threw |-> FALSE, message |-> "", open |-> TRUE]
  IN
  IF active /\ Truthy(rules)
  THEN IF rules.k # "string"
       THEN [threw |-> TRUE, message |-> "ufw.rules.split is not a function",
             open |-> FALSE]
       ELSE IF \E i \in 1..Len(SplitLines(rules.s)) :
                 UfwLineOpensSsh(SplitLines(rules.s)[i])
       THEN yes
       ELSE no
  ELSE IF Truthy(iptables) /\ iptables.k # "string"
  THEN [threw |-> TRUE, message |-> "iptables.split is not a function",
        open |-> FALSE]
  ELSE IF /\ Truthy(iptables)
          /\ \/ IptablesInputAccepts(SplitLines(iptables.s), 1, FALSE)
             \/ IptablesDefaultAccept(SplitLines(iptables.s))
  THEN yes
  ELSE IF ~active
  THEN yes
  ELSE no

\* fail2ban.jails.some((j) => j.toLowerCase() === "sshd" || ... === "ssh"),
\* from element i on: some() stops at the first jail that matches.
RECURSIVE HasSshdJail(_, _)
HasSshdJail(jails, i) ==
  IF i > Len(jails)
  THEN [threw |-> FALSE, message |-> "", some |-> FALSE]
  ELSE LET j == LowerOf(jails[i], "j") IN
       IF j.threw THEN [threw |-> TRUE, message |-> j.message, some |-> FALSE]
       ELSE IF j.s = <<"s","s","h","d">> \/ j.s = <<"s","s","h">>
       THEN [threw |-> FALSE, message |-> "", some |-> TRUE]
       ELSE HasSshdJail(jails, i + 1)

FirewallFail2banRule(st, fail2ban) ==
  IF ~Truthy(Prop(fail2ban, "running"))
  THEN Push(st, "firewall", "FW", MEDIUM, "Fail2ban is not running",
            [fail2banRunning |-> FALSE])
  ELSE LET jails == Prop(fail2ban, "jails") IN
       IF Nullish(jails)
       THEN Throw(st, "Cannot read properties of undefined (reading 'some')")
       ELSE IF jails.k # "array"
       THEN Throw(st, "fail2ban.jails.some is not a function")
       ELSE LET has == HasSshdJail(jails.a, 1) IN
            IF has.threw THEN Throw(st, has.message)
            ELSE IF ~has.some
            THEN Push(st, "firewall", "FW", MEDIUM,
                      "Fail2ban sshd jail is not active", [jails |-> jails.a])
            ELSE st

FirewallAnalyze(data, db, c0) ==
  LET st0 == AnalyzerState(c0) IN
  IF Nullish(data)
  THEN Throw(st0, "Cannot read properties of undefined (reading 'ufw')")
  ELSE
    LET ufw == Coalesce(Prop(data, "ufw"),
                 JSObject([active |-> JSBoolean(FALSE), rules |-> JSString(<<>>)]))
        fail2ban == Coalesce(Prop(data, "fail2ban"),
                      JSObject([running |-> JSBoolean(FALSE), jails |-> JSArray(<<>>),
                                sshdStatus |-> JSString(<<>>)]))
        iptables == Coalesce(Prop(data, "iptables"), JSString(<<>>))
        s1 == IF ~Truthy(Prop(ufw, "active"))
              THEN Push(st0, "firewall", "FW", HIGH, "UFW firewall is not active",
                        [ufwActive |-> FALSE])
              ELSE st0
        s2 == FirewallFail2banRule(s1, fail2ban)
        ssh == isSshOpenToAll(ufw, iptables)
    IN IF s2.threw THEN s2
       ELSE IF ssh.threw THEN Throw(s2, ssh.message)
       ELSE IF ssh.open
       THEN Push(s2, "firewall", "FW", MEDIUM, "SSH is not restricted by firewall",
                 [sshRestricted |-> FALSE])
       ELSE s2

\* ------------------------------------------ analyzers/crontabs.ts: rootkit
\* preloadContent.split("\n").map(l => l.trim())
\*   .filter(l => l.length > 0 && !l.startsWith("#"))
PreloadEntries(preloadContent) ==
  LET trimmed == [i \in 1..Len(SplitLines(preloadContent)) |->
                    Trim(SplitLines(preloadContent)[i])]
  IN SelectSeq(trimmed, LAMBDA l : Len(l) > 0 /\ ~StartsWith(l, <<"#">>))

\* Rule 1: `const preloadContent = ldPreload.trim();
\*          if (preloadContent.length > 0) { ...; findings.push(...) }`
\* The test is on the trimmed content, not on the filtered entries. A value
\* that is not a string has no trim method.
RootkitPreloadRule(st, ldPreload) ==
  IF st.threw THEN st
  ELSE IF ldPreload.k # "string"
  THEN Throw(st, "ldPreload.trim is not a function")
  ELSE LET preloadContent == Trim(ldPreload.s) IN
       IF Len(preloadContent) > 0
       THEN Push(st, "rootkit", "RK", CRITICAL, "LD_PRELOAD rootkit detected",
                 [file |-> "/etc/ld.so.preload",
                  entries |-> PreloadEntries(preloadContent),
                  rawContent |-> preloadContent])
       ELSE st

\* Rule 2: `for (const soFile of suspiciousSoFiles) findings.push(...)`,
\* from element i on.
RECURSIVE RootkitSoLoop(_, _, _)
RootkitSoLoop(st, soFiles, i) ==
  IF i > Len(soFiles) THEN st
  ELSE RootkitSoLoop(
         Push(st, "rootkit", "RK", HIGH,
              "Suspicious shared library in non-standard location",
              [path |-> soFiles[i]]),
         soFiles, i + 1)

RootkitSoRule(st, suspiciousSoFiles) ==
  IF st.threw THEN st
  ELSE IF ~Iterable(suspiciousSoFiles)
  THEN Throw(st, "suspiciousSoFiles is not iterable")
  ELSE RootkitSoLoop(st, Elements(suspiciousSoFiles), 1)

\* Rule 3: `if (etcDataExists) findings.push(...)`.
RootkitEtcDataRule(st, etcDataExists, etcDataFiles) ==
  IF st.threw THEN st
  ELSE IF Truthy(etcDataExists)
  THEN Push(st, "rootkit", "RK", CRITICAL,
            "Known malware directory /etc/data detected (Kinsing)",
            [path |-> "/etc/data", files |-> etcDataFiles])
  ELSE st

RootkitAnalyze(data, db, c0) ==
  LET st0 == AnalyzerState(c0) IN
  IF Nullish(data)
  THEN Throw(st0, "Cannot read properties of undefined (reading 'ldPreload')")
  ELSE
    LET ldPreload == Coalesce(Prop(data, "ldPreload"), JSString(<<>>))
        suspiciousSoFiles == Coalesce(Prop(data, "suspiciousSoFiles"), JSArray(<<>>))
        etcDataExists == Coalesce(Prop(data, "etcDataExists"), JSBoolean(FALSE))
        etcDataFiles == Coalesce(Prop(data, "etcDataFiles"), JSArray(<<>>))
        s1 == RootkitPreloadRule(st0, ldPreload)
        s2 == RootkitSoRule(s1, suspiciousSoFiles)
    IN RootkitEtcDataRule(s2, etcDataExists, etcDataFiles)

\* ------------------------------------------------ analyzers/credentials.ts
\* Rule 4: `if (sshPrivateKeys.length > 0) findings.push(...)`: one finding
\* for all keys, with their count and paths. The description joins the
\* paths, which only an array can do.
CredentialKeysRulePerKey(st, sshPrivateKeys) ==
  IF st.threw \/ sshPrivateKeys.k # "array" THEN st
  ELSE ForEach(st, sshPrivateKeys.a,
         LAMBDA s, key : Push(s, "credentials", "CRED", INFO,
                              "SSH private keys found on disk",
                              [count |-> 1, paths |-> <<key>>]))
CredentialKeysRule(st, sshPrivateKeys) ==
  IF st.threw THEN st
  ELSE IF ~JSGreater(LengthOf(sshPrivateKeys), 0) THEN st
  ELSE IF sshPrivateKeys.k # "array"
  THEN Throw(st, "sshPrivateKeys.join is not a function")
  ELSE Push(st, "credentials", "CRED", INFO, "SSH private keys found on disk",
            [count |-> Len(sshPrivateKeys.a), paths |-> sshPrivateKeys.a])

CredentialAnalyze(data, db, c0) ==
  LET st0 == AnalyzerState(c0) IN
  IF Nullish(data)
  THEN Throw(st0, "Cannot read properties of undefined (reading 'envFiles')")
  ELSE
    LET envFiles == Coalesce(Prop(data, "envFiles"), JSArray(<<>>))
        serviceAccountKeys == Coalesce(Prop(data, "serviceAccountKeys"), JSArray(<<>>))
        gitCredentials == Prop(data, "gitCredentials")
        sshPrivateKeys == Coalesce(Prop(data, "sshPrivateKeys"), JSArray(<<>>))
        \* 1. one MEDIUM finding per env file
        s1 == IF ~Iterable(envFiles)
              THEN Throw(st0, "envFiles is not iterable")
              ELSE ForEach(st0, Elements(envFiles),
                     LAMBDA s, envFile :
                       IF Nullish(envFile)
                       THEN Throw(s, "Cannot read properties of undefined (reading 'path')")
                       ELSE Push(s, "credentials", "CRED", MEDIUM,
                                 "Environment file with potential secrets",
                                 [path |-> Prop(envFile, "path"),
                                  size |-> Prop(envFile, "size")]))
        \* 2. one HIGH finding per service account key whose path is not blank
        s2 == IF s1.threw THEN s1
              ELSE IF ~Iterable(serviceAccountKeys)
              THEN Throw(s1, "serviceAccountKeys is not iterable")
              ELSE ForEach(s1, Elements(serviceAccountKeys),
                     LAMBDA s, keyPath :
                       IF keyPath.k # "string"
                       THEN Throw(s, "keyPath.trim is not a function")
                       ELSE IF Trim(keyPath.s) = <<>> THEN s
                       ELSE Push(s, "credentials", "CRED", HIGH,
                                 "Service account key file on disk",
                                 [path |-> keyPath]))
        \* 3. `if (gitCredentials)`: the non-blank lines are counted
        s3 == IF s2.threw \/ ~Truthy(gitCredentials) THEN s2
              ELSE IF gitCredentials.k # "string"
              THEN Throw(s2, "gitCredentials.split is not a function")
              ELSE Push(s2, "credentials", "CRED", MEDIUM,
                        "Git credentials stored in plaintext",
                        [path |-> "/root/.git-credentials",
                         credentialCount |->
                           Len(SelectSeq(SplitLines(gitCredentials.s),
                                         LAMBDA l : Len(Trim(l)) > 0))])
    IN CredentialKeysRule(s3, sshPrivateKeys)

\* ------------------------------------------------------ analyzers/shell.ts
HIGH_SEVERITY_PATTERNS ==
  {<<"w","g","e","t">>, <<"c","u","r","l">>, <<"n","c">>, <<"n","c","a","t">>, <<"e","v","a","l">>, <<"/","d","e","v","/","t","c","p">>, <<"/","d","e","v","/","u","d","p">>, <<".","o","n","i","o","n">>}

MEDIUM_SEVERITY_PATTERNS == {<<"b","a","s","e","6","4">>, <<"e","x","e","c">>, <<"p","y","t","h","o","n",".","*","h","t","t","p">>}

\* classifySeverity: exact membership in the HIGH set, then in the MEDIUM
\* set, then a MEDIUM pattern containing or contained in the pattern, and
\* HIGH for what is left.
classifySeverityDefaultMedium(pattern) == MEDIUM
classifySeverity(pattern) ==
  LET lower == ToLowerCase(pattern) IN
  IF lower \in HIGH_SEVERITY_PATTERNS THEN HIGH
  ELSE IF lower \in MEDIUM_SEVERITY_PATTERNS THEN MEDIUM
  ELSE IF \E p \in MEDIUM_SEVERITY_PATTERNS : Includes(lower, p) \/ Includes(p, lower)
       THEN MEDIUM
  ELSE HIGH

\* truncate(s, max): s.length > max ? s.slice(0, max) + "..." : s
truncateNever(s, max) == s
truncate(s, max) == IF Len(s) > max THEN SubSeq(s, 1, max) \o <<".",".",".">> ELSE s

\* A finding whose description quotes a text of the scanned host: `quoted`
\* is the text as the description template interpolates it.
PushQuoting(st, module, prefix, severity, title, details, quoted) ==
  LET pushed == Push(st, module, prefix, severity, title, details)
      last == Len(pushed.findings)
  IN [pushed EXCEPT !.findings[last] = @ @@ [quoted |-> quoted]]

ShellAnalyze(data, db, c0) ==
  LET st0 == AnalyzerState(c0) IN
  IF Nullish(data)
  THEN Throw(st0, "Cannot read properties of undefined (reading 'suspiciousEntries')")
  ELSE
    LET suspiciousEntries == Coalesce(Prop(data, "suspiciousEntries"), JSArray(<<>>)) IN
    IF ~Iterable(suspiciousEntries)
    THEN Throw(st0, "suspiciousEntries is not iterable")
    ELSE ForEach(st0, Elements(suspiciousEntries),
           LAMBDA s, entry :
             IF Nullish(entry)
             THEN Throw(s, "Cannot read properties of undefined (reading 'matchedPattern')")
             ELSE IF Prop(entry, "matchedPattern").k # "string"
             THEN Throw(s, "pattern.toLowerCase is not a function")
             ELSE IF Prop(entry, "line").k # "string"
             THEN Throw(s, "entry.line.trim is not a function")
             ELSE PushQuoting(s, "shell", "SHELL",
                    classifySeverity(Prop(entry, "matchedPattern").s),
                    "Suspicious pattern in shell profile: ${entry.matchedPattern}",
                    [file |-> Prop(entry, "file"),
                     lineNumber |-> Prop(entry, "lineNumber"),
                     line |-> Prop(entry, "line"),
                     matchedPattern |-> Prop(entry, "matchedPattern")],
                    truncate(Trim(Prop(entry, "line").s), 150)))

\* --------------------------------------------------- analyzers/crontabs.ts
\* \b after the word that ends at index i of s.
WordEndsAt(s, i) == i = Len(s) \/ (i < Len(s) /\ ~IsWordChar(s[i + 1]))

\* DOWNLOAD_PIPE_RE = /(?:wget|curl)\b.*\|\s*(?:bash|sh|zsh|dash)\b/i
DownloadPipeTest(line) ==
  LET l == ToLowerCase(line) IN
  \E i \in 0..Len(l), tool \in {<<"w","g","e","t">>, <<"c","u","r","l">>} :
    /\ OccursAt(l, tool, i)
    /\ WordEndsAt(l, i + Len(tool))
    /\ \E p \in (i + Len(tool) + 1)..Len(l) :
         /\ l[p] = "|"
         /\ \E shell \in {<<"b","a","s","h">>, <<"s","h">>, <<"z","s","h">>, <<"d","a","s","h">>} :
              LET q == FirstNonSpaceFrom(l, p + 1) IN
              /\ OccursAt(l, shell, q - 1)
              /\ WordEndsAt(l, q - 1 + Len(shell))

\* BASE64_RE = /base64\s+(?:-d|--decode)/i
Base64Test(line) ==
  LET l == ToLowerCase(line) IN
  \E i \in 0..Len(l) :
    /\ OccursAt(l, <<"b","a","s","e","6","4">>, i)
    /\ i + 7 <= Len(l)
    /\ IsSpace(l[i + 7])
    /\ LET q == FirstNonSpaceFrom(l, i + 7) IN
       OccursAt(l, <<"-","d">>, q - 1) \/ OccursAt(l, <<"-","-","d","e","c","o","d","e">>, q - 1)

\* TMP_EXEC_RE.exec(line): /(?:\/tmp\/|\/var\/tmp\/|\/dev\/shm\/)\S+/, the
\* text of the leftmost match, <<>> for null.
TmpExecMatch(line) ==
  LET ends == [i \in 0..Len(line) |->
                 {i + Len(p) : p \in {q \in {<<"/","t","m","p","/">>, <<"/","v","a","r","/","t","m","p","/">>, <<"/","d","e","v","/","s","h","m","/">>} :
                                        /\ OccursAt(line, q, i)
                                        /\ i + Len(q) + 1 <= Len(line)
                                        /\ ~IsSpace(line[i + Len(q) + 1])}}]
      starts == {i \in 0..Len(line) : ends[i] # {}}
  IN IF starts = {} THEN <<>>
     ELSE LET i == CHOOSE a \in starts : \A b \in starts : a <= b
              e == CHOOSE x \in ends[i] : TRUE
          IN SubSeq(line, i + 1, FirstSpaceFrom(line, e + 1) - 1)

\* HIDDEN_DIR_EXEC_RE.exec(line): /\/\.[^/]+\/\S+/
HiddenDirExecMatch(line) ==
  LET starts == {i \in 1..Len(line) :
                   LET j == HiddenDirEnd(line, i) IN
                   j # 0 /\ j + 1 <= Len(line) /\ ~IsSpace(line[j + 1])}
  IN IF starts = {} THEN <<>>
     ELSE LET i == CHOOSE a \in starts : \A b \in starts : a <= b
          IN SubSeq(line, i, FirstSpaceFrom(line, HiddenDirEnd(line, i) + 1) - 1)

\* `if (!line || line.startsWith("#") || /^\w+=/.test(line)) continue;`
CrontabSkipped(line) ==
  \/ line = <<>>
  \/ StartsWith(line, <<"#">>)
  \/ \E k \in 1..(Len(line) - 1) :
       (\A j \in 1..k : IsWordChar(line[j])) /\ line[k + 1] = "="

\* `if (hiddenMatch && !tmpMatch)`
CrontabHiddenRuleAlone(hiddenMatch, tmpMatch) == hiddenMatch # <<>>
CrontabHiddenRule(hiddenMatch, tmpMatch) == hiddenMatch # <<>> /\ tmpMatch = <<>>

\* The body of `for (let i = 0; i < lines.length; i++)`; lineNumber is i + 1.
CrontabLine(st, label, lineNumber, rawLine) ==
  LET line == Trim(rawLine)
      tmpMatch == TmpExecMatch(line)
      hiddenMatch == HiddenDirExecMatch(line)
      details == [source |-> label, lineNumber |-> lineNumber, line |-> line]
      s1 == IF DownloadPipeTest(line)
            THEN PushQuoting(st, "crontabs", "CRON", CRITICAL,
                             "Crontab downloads and executes remote code",
                             details, truncate(line, 120))
            ELSE st
      s2 == IF Base64Test(line)
            THEN PushQuoting(s1, "crontabs", "CRON", HIGH,
                             "Crontab contains base64-encoded command",
                             details, truncate(line, 120))
            ELSE s1
      s3 == IF tmpMatch # <<>>
            THEN PushQuoting(s2, "crontabs", "CRON", HIGH,
                             "Crontab runs binary from temporary directory",
                             details @@ [path |-> tmpMatch], tmpMatch)
            ELSE s2
      s4 == IF CrontabHiddenRule(hiddenMatch, tmpMatch)
            THEN PushQuoting(s3, "crontabs", "CRON", HIGH,
                             "Crontab runs binary from hidden directory",
                             details @@ [path |-> hiddenMatch], hiddenMatch)
            ELSE s3
  IN IF CrontabSkipped(line) THEN st ELSE s4

\* The unified list of sources: the root crontab and /etc/crontab when they
\* are truthy, then one source per cron.d entry and per user crontab.
CrontabSources(data) ==
  LET rootCrontab == Coalesce(Prop(data, "rootCrontab"), JSString(<<>>))
      systemCrontab == Coalesce(Prop(data, "systemCrontab"), JSString(<<>>))
      cronDirs == Coalesce(Prop(data, "cronDirs"), JSArray(<<>>))
      userCrontabs == Coalesce(Prop(data, "userCrontabs"), JSArray(<<>>))
      Entries(list, field) ==
        [i \in 1..Len(Elements(list)) |->
           [label |-> <<field, Prop(Elements(list)[i], field)>>,
            content |-> Prop(Elements(list)[i], "content")]]
  IN (IF Truthy(rootCrontab)
      THEN <<[label |-> <<"root crontab">>, content |-> rootCrontab]>> ELSE <<>>)
     \o (IF Truthy(systemCrontab)
         THEN <<[label |-> <<"/etc/crontab">>, content |-> systemCrontab]>> ELSE <<>>)
     \o Entries(cronDirs, "name") \o Entries(userCrontabs, "user")

CrontabAnalyze(data, db, c0) ==
  LET st0 == AnalyzerState(c0) IN
  IF Nullish(data)
  THEN Throw(st0, "Cannot read properties of undefined (reading 'rootCrontab')")
  ELSE IF \E f \in {"cronDirs", "userCrontabs"} :
            LET list == Coalesce(Prop(data, f), JSArray(<<>>)) IN
            \/ ~Iterable(list)
            \/ \E i \in 1..Len(Elements(list)) : Nullish(Elements(list)[i])
  THEN Throw(st0, "cronDirs or userCrontabs is not a list of entries")
  ELSE ForEach(st0, CrontabSources(data),
         LAMBDA s, source :
           IF source.content.k # "string"
           THEN Throw(s, "source.content.split is not a function")
           ELSE LET lines == SplitLines(source.content.s) IN
                ForEach(s, [i \in 1..Len(lines) |-> i],
                  LAMBDA t, i : CrontabLine(t, source.label, i, lines[i])))

\* ------------------------------------------- analyzers/network.ts, lookupIP
\* lookupIP(ip): `this.ips[ip] ?? null`, the entry stored under the key ip.
lookupIP(db, ip) ==
  IF Nullish(db.ips)
  THEN [threw |-> TRUE, message |-> "Cannot read properties of undefined",
        found |-> FALSE, entry |-> JSNull]
  ELSE LET es == Elements(db.ips)
           hits == {i \in 1..Len(es) : JSString(es[i].key) = ip}
       IN IF hits = {}
          THEN [threw |-> FALSE, message |-> "", found |-> FALSE, entry |-> JSNull]
          ELSE [threw |-> FALSE, message |-> "", found |-> TRUE,
                entry |-> es[CHOOSE i \in hits : TRUE]]

BOTNET_SCAN_PORTS == {23, 2323, 37215}

\* Rule 5: `lp.localPort > 1024 && (lp.localAddr === "0.0.0.0" ||
\* lp.localAddr === "*" || lp.localAddr === "::")`
NetworkHighPortInclusive(localPort, localAddr) ==
  /\ JSGreater(localPort, 1023)
  /\ localAddr \in {JSString(<<"0",".","0",".","0",".","0">>), JSString(<<"*">>), JSString(<<":",":">>)}
NetworkHighPort(localPort, localAddr) ==
  /\ JSGreater(localPort, 1024)
  /\ localAddr \in {JSString(<<"0",".","0",".","0",".","0">>), JSString(<<"*">>), JSString(<<":",":">>)}

\* The body of `for (const conn of connections)`.
NetworkConnection(st, conn, db) ==
  IF Nullish(conn)
  THEN Throw(st, "Cannot read properties of undefined (reading 'remoteAddr')")
  ELSE
    LET remotePort == Prop(conn, "remotePort")
        ipThreat == lookupIP(db, Prop(conn, "remoteAddr"))
        portThreat == matchPort(db, IF remotePort.k = "number" THEN remotePort.n ELSE -1,
                                "outbound")
        s1 == IF ipThreat.found
              THEN Push(st, "network", "NET", toSeverity(ipThreat.entry.severity),
                        "Connection to known malicious IP: ${conn.remoteAddr}",
                        [connection |-> conn, threat |-> ipThreat.entry])
              ELSE st
        s2 == IF portThreat.found
              THEN Push(s1, "network", "NET", toSeverity(portThreat.entry.severity),
                        "Outbound connection to suspicious port ${conn.remotePort}",
                        [connection |-> conn, threat |-> portThreat.entry])
              ELSE s1
        s3 == IF remotePort.k = "number" /\ remotePort.n \in BOTNET_SCAN_PORTS
              THEN Push(s2, "network", "NET", HIGH,
                        "Outbound connection to botnet-associated port ${conn.remotePort}",
                        [connection |-> conn, port |-> remotePort])
              ELSE s2
    IN IF ipThreat.threw THEN Throw(st, ipThreat.message)
       ELSE IF portThreat.threw THEN Throw(st, portThreat.message)
       ELSE s3

\* The body of `for (const lp of listening)`.
NetworkListening(st, lp, db) ==
  IF Nullish(lp)
  THEN Throw(st, "Cannot read properties of undefined (reading 'localPort')")
  ELSE
    LET localPort == Prop(lp, "localPort")
        portThreat == matchPort(db, IF localPort.k = "number" THEN localPort.n ELSE -1,
                                "listening")
        s1 == IF portThreat.found
              THEN Push(st, "network", "NET", toSeverity(portThreat.entry.severity),
                        "Suspicious listening port ${lp.localPort}",
                        [listening |-> lp, threat |-> portThreat.entry])
              ELSE st
        s2 == IF NetworkHighPort(localPort, Prop(lp, "localAddr"))
              THEN Push(s1, "network", "NET", INFO,
                        "High port ${lp.localPort} listening on all interfaces",
                        [listening |-> lp])
              ELSE s1
    IN IF portThreat.threw THEN Throw(st, portThreat.message) ELSE s2

NetworkAnalyze(data, db, c0) ==
  LET st0 == AnalyzerState(c0) IN
  IF Nullish(data)
  THEN Throw(st0, "Cannot read properties of undefined (reading 'listening')")
  ELSE
    LET listening == Coalesce(Prop(data, "listening"), JSArray(<<>>))
        connections == Coalesce(Prop(data, "connections"), JSArray(<<>>))
    IN IF ~Iterable(connections)
       THEN Throw(st0, "connections is not iterable")
       ELSE LET s1 == ForEach(st0, Elements(connections),
                        LAMBDA s, conn : NetworkConnection(s, conn, db))
            IN IF s1.threw THEN s1
               ELSE IF ~Iterable(listening)
               THEN Throw(s1, "listening is not iterable")
               ELSE ForEach(s1, Elements(listening),
                      LAMBDA s, lp : NetworkListening(s, lp, db))

\* ------------------------------------------------------------- collectors
\* What each Collector can return: CollectorResult.data, in the shape the
\* Collector builds it (collectors/*.ts), for a sample of hosts.

\* collectors/processes.ts: { processes: ProcessInfo[] }
ProcessInfo(user, pid, cpu, command) ==
  JSObject([user |-> JSString(user), pid |-> JSNumber(pid), cpu |-> JSNumber(cpu),
            mem |-> JSNumber(0), command |-> JSString(command)])

ProcessesData(ps) == JSObject([processes |-> JSArray(ps)])

ProcessOutputs ==
  {ProcessesData(<<ProcessInfo(<<"r","o","o","t">>, 1, 0, <<"/","u","s","r","/","s","b","i","n","/","s","s","h","d"," ","-","D">>)>>),
   ProcessesData(<<ProcessInfo(<<"w","w","w">>, 7, 95, <<"/","t","m","p","/","x","m","r","i","g"," ","-","o"," ","p","o","o","l">>)>>),
   ProcessesData(<<ProcessInfo(<<"b","o","b">>, 8, 1, <<"n","m","a","p"," ","-","s","S"," ","h","o","s","t">>),
                   ProcessInfo(<<"b","o","b">>, 9, 80, <<"\\","_"," ","/","h","o","m","e","/","b","o","b","/",".","s","s","h","/","a","g","e","n","t">>)>>),
   ProcessesData(<<ProcessInfo(<<"b","o","b">>, 9, 81, <<"/","h","o","m","e","/","b","o","b","/",".","x","/","r","u","n">>)>>)}

\* Hosts with processes under a hidden directory of a temporary directory,
\* with and without a threat match and a high CPU share.
ProcessHosts ==
  {ProcessesData(<<ProcessInfo(<<"w","w","w">>, 11, 95, <<"/","t","m","p","/",".","x","/","r","u","n"," ","-","q">>),
                   ProcessInfo(<<"w","w","w">>, 12, 10, <<"/","v","a","r","/","t","m","p","/",".","c","a","c","h","e","/","k","i","n","s","i","n","g">>),
                   ProcessInfo(<<"b","o","b">>, 13, 99, <<"/","h","o","m","e","/","b","o","b","/",".","h","i","d","/","x","m","r","i","g">>),
                   ProcessInfo(<<"b","o","b">>, 14, 80, <<"/","d","e","v","/","s","h","m","/",".","k","/","m">>),
                   ProcessInfo(<<"b","o","b">>, 15, 81, <<"/","h","o","m","e","/","b","o","b","/",".","c","a","c","h","e","/","t","m","p","/","r","u","n">>)>>)}

\* collectors/ssh.ts: { authorizedKeys, sshdConfig, activeSessions, sshConnections }
SshData(root, password, empty, sessions, keyFiles) ==
  JSObject([authorizedKeys |-> JSArray(keyFiles),
            sshdConfig |-> JSObject([permitRootLogin |-> JSString(root),
                                     passwordAuth |-> JSString(password),
                                     pubkeyAuth |-> JSString(<<"y","e","s">>),
                                     permitEmptyPasswords |-> JSString(empty)]),
            activeSessions |-> JSArray(sessions),
            sshConnections |-> JSArray(<<>>)])

KeyFile(path, keys) == JSObject([path |-> JSString(path), keys |-> JSArray(keys)])

SshOutputs ==
  {SshData(<<"n","o">>, <<"n","o">>, <<"n","o">>, <<JSString(<<"b","o","b"," ","p","t","s","/","0">>)>>, <<>>),
   SshData(<<"n","o">>, <<"y","e","s">>, <<"n","o">>, <<JSString(<<"b","o","b"," ","p","t","s","/","0">>)>>, <<>>),
   SshData(<<"Y","e","s">>, <<"y","e","s">>, <<"y","e","s">>,
           <<JSString(<<"b","o","b"," ","p","t","s","/","0">>), JSString(<<"e","v","e"," ","p","t","s","/","1">>)>>,
           <<KeyFile(<<"/","r","o","o","t","/",".","s","s","h","/","a","u","t","h","o","r","i","z","e","d","_","k","e","y","s">>, <<JSString(<<"s","s","h","-","r","s","a"," ","A">>)>>)>>),
   SshData(<<"u","n","k","n","o","w","n">>, <<"u","n","k","n","o","w","n">>, <<"u","n","k","n","o","w","n">>, <<>>,
           <<KeyFile(<<"/","h","o","m","e","/","b","o","b","/",".","s","s","h","/","a","u","t","h","o","r","i","z","e","d","_","k","e","y","s">>, <<>>)>>)}

\* collectors/systemd.ts: { enabledServices, serviceFiles }
EnabledService(name) ==
  JSObject([name |-> JSString(name), state |-> JSString(<<"e","n","a","b","l","e","d">>)])

ServiceFile(name, execStart, restart, restartSec, standardOutput) ==
  JSObject([name |-> JSString(name),
            path |-> JSString(<<"/","e","t","c","/","s","y","s","t","e","m","d","/","s","y","s","t","e","m","/">> \o name),
            execStart |-> JSString(execStart),
            restart |-> JSString(restart),
            restartSec |-> JSString(restartSec),
            standardOutput |-> JSString(standardOutput)])

SystemdData(services, files) ==
  JSObject([enabledServices |-> JSArray(services), serviceFiles |-> JSArray(files)])

SystemdOutputs ==
  {SystemdData(<<EnabledService(<<"s","s","h",".","s","e","r","v","i","c","e">>)>>, <<>>),
   SystemdData(<<EnabledService(<<"k","d","e","v","t","m","p","f","s","i",".","s","e","r","v","i","c","e">>)>>,
               <<ServiceFile(<<"k","d","e","v","t","m","p","f","s","i",".","s","e","r","v","i","c","e">>, <<"-","/","t","m","p","/","k"," ","-","d">>, <<"a","l","w","a","y","s">>, <<"5">>,
                             <<"n","u","l","l">>)>>),
   SystemdData(<<EnabledService(<<"a","p","p",".","s","e","r","v","i","c","e">>)>>,
               <<ServiceFile(<<"a","p","p",".","s","e","r","v","i","c","e">>, <<"/","o","p","t","/","a","p","p","/","r","u","n">>, <<"A","l","w","a","y","s">>, <<>>,
                             <<"j","o","u","r","n","a","l">>)>>)}

\* collectors/firewall.ts: { ufw, fail2ban, iptables }
FirewallData(active, rules, running, jails, iptables) ==
  JSObject([ufw |-> JSObject([active |-> JSBoolean(active), rules |-> JSString(rules)]),
            fail2ban |-> JSObject([running |-> JSBoolean(running),
                                   jails |-> JSArray(jails),
                                   sshdStatus |-> JSString(<<>>)]),
            iptables |-> JSString(iptables)])

FirewallOutputs ==
  {FirewallData(TRUE, <<"S","t","a","t","u","s",":"," ","a","c","t","i","v","e","\n","2","2","/","t","c","p"," ","A","L","L","O","W"," ","I","N"," ","1","0",".","0",".","0",".","0","/","8">>, TRUE,
                <<JSString(<<"s","s","h","d">>)>>, <<>>),
   FirewallData(FALSE, <<>>, FALSE, <<>>, <<>>),
   FirewallData(TRUE, <<"S","t","a","t","u","s",":"," ","a","c","t","i","v","e","\n","2","2","/","t","c","p"," "," ","A","L","L","O","W"," ","I","N"," "," ","A","n","y","w","h","e","r","e">>, TRUE,
                <<JSString(<<"n","g","i","n","x">>)>>, <<"C","h","a","i","n"," ","I","N","P","U","T"," ","(","p","o","l","i","c","y"," ","D","R","O","P",")">>),
   FirewallData(FALSE, <<"S","t","a","t","u","s",":"," ","i","n","a","c","t","i","v","e">>, TRUE, <<JSString(<<"S","S","H","D">>)>>,
                <<"C","h","a","i","n"," ","I","N","P","U","T"," ","(","p","o","l","i","c","y"," ","D","R","O","P",")","\n","D","R","O","P"," ","t","c","p"," ","0",".","0",".","0",".","0","/","0"," ","d","p","t",":","2","2">>)}

\* collectors/rootkit.ts: { ldPreload, suspiciousSoFiles, etcDataExists,
\* etcDataFiles, kernelModules }; ldPreload is the trimmed output of cat.
RootkitData(ldPreload, soFiles, etcDataExists, etcDataFiles) ==
  JSObject([ldPreload |-> JSString(ldPreload),
            suspiciousSoFiles |-> JSArray(soFiles),
            etcDataExists |-> JSBoolean(etcDataExists),
            etcDataFiles |-> JSArray(etcDataFiles),
            kernelModules |-> JSArray(<<>>)])

RootkitOutputs ==
  {RootkitData(<<>>, <<>>, FALSE, <<>>),
   RootkitData(<<"/","e","t","c","/","d","a","t","a","/","l","i","b","s","y","s","t","e","m",".","s","o">>, <<JSString(<<"/","t","m","p","/","x",".","s","o">>)>>, TRUE,
               <<JSString(<<"l","i","b","s","y","s","t","e","m",".","s","o">>)>>),
   RootkitData(<<"#"," ","n","o","n","e">>, <<>>, FALSE, <<>>),
   RootkitData(<<"#","a","\n"," ","/","l","i","b","/","a",".","s","o"," ","\n","\n","/","l","i","b","/","b",".","s","o">>,
               <<JSString(<<"/","t","m","p","/","x",".","s","o">>), JSString(<<"/","d","e","v","/","s","h","m","/","y",".","s","o">>)>>, FALSE, <<>>)}

\* collectors/credentials.ts: { envFiles, serviceAccountKeys,
\* gitCredentials, sshPrivateKeys }; gitCredentials is the file's text or
\* null.
CredentialData(envFiles, serviceAccountKeys, gitCredentials, sshPrivateKeys) ==
  JSObject([envFiles |->
              JSArray([i \in 1..Len(envFiles) |->
                         JSObject([path |-> JSString(envFiles[i]),
                                   size |-> JSString(<<"1","2","0">>)])]),
            serviceAccountKeys |->
              JSArray([i \in 1..Len(serviceAccountKeys) |->
                         JSString(serviceAccountKeys[i])]),
            gitCredentials |-> gitCredentials,
            sshPrivateKeys |->
              JSArray([i \in 1..Len(sshPrivateKeys) |-> JSString(sshPrivateKeys[i])])])

CredentialOutputs ==
  {CredentialData(<<>>, <<>>, JSNull, <<>>),
   CredentialData(<<<<"/","a","p","p","/",".","e","n","v">>, <<"/","s","r","v","/",".","e","n","v",".","l","o","c","a","l">>>>, <<<<"/","s","r","v","/","g","c","p","-","k","e","y",".","j","s","o","n">>>>,
                  JSString(<<"u",":","p","@","h","\n","\n","v",":","q","@","g">>), <<<<"/","r","o","o","t","/",".","s","s","h","/","i","d","_","r","s","a">>, <<"/","e","t","c","/","k",".","p","e","m">>>>),
   CredentialData(<<>>, <<<<"/","a","/","f","i","r","e","b","a","s","e","-","a","d","m","i","n","s","d","k",".","j","s","o","n">>, <<"/","b","/","s","e","r","v","i","c","e","-","a","c","c","o","u","n","t",".","j","s","o","n">>>>,
                  JSNull, <<<<"/","r","o","o","t","/",".","s","s","h","/","i","d","_","e","d","2","5","5","1","9">>>>),
   CredentialData(<<<<"/","a","p","p","/",".","e","n","v">>>>, <<>>, JSString(<<"u",":","p","@","h">>),
                  <<<<"/","a","/","i","d","_","r","s","a">>, <<"/","b","/","i","d","_","r","s","a">>, <<"/","c","/","i","d","_","d","s","a">>>>)}

\* collectors/shell.ts: the patterns the collector labels a hit with, in the
\* order it tries them; a hit that none of them matches again is "unknown".
DANGEROUS_PATTERNS ==
  <<<<"w","g","e","t">>, <<"c","u","r","l">>, <<"\\","b","n","c","a","t","\\","b">>, <<"\\","b","n","c","\\","s">>, <<"p","y","t","h","o","n",".","*","h","t","t","p">>, <<"b","a","s","e","6","4">>,
    <<"\\","b","e","v","a","l","\\","b">>, <<"/","d","e","v","/","t","c","p">>, <<"/","d","e","v","/","u","d","p">>, <<"\\",".","o","n","i","o","n">>>>

\* A text of n characters c.
Repeated(c, n) == [i \in 1..n |-> c]

\* { suspiciousEntries: [{ file, line, lineNumber, matchedPattern }] }: one
\* entry per grep hit that is not a comment line.
SuspiciousEntry(file, lineNumber, line, matchedPattern) ==
  JSObject([file |-> JSString(file), line |-> JSString(line),
            lineNumber |-> JSNumber(lineNumber),
            matchedPattern |-> JSString(matchedPattern)])

ShellData(entries) ==
  JSObject([suspiciousEntries |-> JSArray(entries),
            etcEnvironment |-> JSString(<<>>), rcLocal |-> JSString(<<>>)])

ShellOutputs ==
  {ShellData(<<>>),
   ShellData(<<SuspiciousEntry(<<"/","r","o","o","t","/",".","b","a","s","h","r","c">>, 7, <<" "," ","e","c","h","o"," ","a","G","k","="," ","|"," ","B","A","S","E","6","4"," ","-","d">>, <<"b","a","s","e","6","4">>),
               SuspiciousEntry(<<"/","r","o","o","t","/",".","b","a","s","h","r","c">>, 9, <<"W","G","E","T"," ","h","t","t","p",":","/","/","h","/","x">>, <<"w","g","e","t">>),
               SuspiciousEntry(<<"/","e","t","c","/","r","c",".","l","o","c","a","l">>, 2, <<"n","c","\t","-","l"," ","4","4","4","4">>, <<"u","n","k","n","o","w","n">>)>>)}

\* Outputs with one hit per pattern of the collector, and with hits whose
\* line is longer than a description quotes.
ShellHits ==
  {ShellData([i \in 1..Len(DANGEROUS_PATTERNS) |->
                SuspiciousEntry(<<"/","e","t","c","/","p","r","o","f","i","l","e">>, i, <<" ","x"," ">>, DANGEROUS_PATTERNS[i])]),
   ShellData(<<SuspiciousEntry(<<"/","e","t","c","/","p","r","o","f","i","l","e">>, 3, <<"c","u","r","l"," ">> \o Repeated("a", 145), <<"c","u","r","l">>),
               SuspiciousEntry(<<"/","e","t","c","/","p","r","o","f","i","l","e">>, 4, <<" ","c","u","r","l"," ">> \o Repeated("b", 146) \o <<" "," ">>,
                               <<"c","u","r","l">>)>>)}

\* collectors/crontabs.ts: { rootCrontab, systemCrontab, cronDirs: [{ name,
\* content }], userCrontabs: [{ user, content }] }.
CrontabData(rootCrontab, systemCrontab, cronDirs, userCrontabs) ==
  JSObject([rootCrontab |-> JSString(rootCrontab),
            systemCrontab |-> JSString(systemCrontab),
            cronDirs |->
              JSArray([i \in 1..Len(cronDirs) |->
                         JSObject([name |-> JSString(cronDirs[i][1]),
                                   content |-> JSString(cronDirs[i][2])])]),
            userCrontabs |->
              JSArray([i \in 1..Len(userCrontabs) |->
                         JSObject([user |-> JSString(userCrontabs[i][1]),
                                   content |-> JSString(userCrontabs[i][2])])])])

CrontabOutputs ==
  {CrontabData(<<>>, <<>>, <<>>, <<>>),
   CrontabData(<<"0"," ","1"," ","*"," ","*"," ","*"," ","/","t","m","p","/","x">>, <<>>, <<>>, <<<<<<"b","o","b">>, <<"#","c","\n","@","r","e","b","o","o","t"," ","/","o","p","t","/",".","h","/","s">>>>>>)}

\* Hosts whose crontabs have lines for every rule, for several rules at
\* once, and comment, blank and assignment lines with the same texts; and
\* a host whose crontab lines are 120 and 125 characters long.
CrontabHosts ==
  {CrontabData(<<"#"," ","m"," ","h","\n","P","A","T","H","=","/","t","m","p","/","b","i","n","\n","\n","*"," ","*"," ","*"," ","*"," ","*"," ","c","u","r","l"," ","h","t","t","p",":","/","/","h","/","x"," ","|"," ","s","h","\n","0"," ","1"," ","*"," ","*"," ","*"," ","/","t","m","p","/",".","c","/","r","u","n">>,
               <<"*","/","5"," ","*"," ","*"," ","*"," ","*"," ","w","g","e","t"," ","-","q","O","-"," ","h","|","b","a","s","e","6","4"," ","-","-","d","e","c","o","d","e","|"," ","b","a","s","h">>,
               <<<<<<"j","o","b">>, <<"@","r","e","b","o","o","t"," ","/","o","p","t","/",".","h","i","d","/","s","t","a","r","t","\n"," "," ","#","c","u","r","l"," ","x"," ","|"," ","s","h","\n","X","=","1"," ","c","u","r","l"," ","x"," ","|"," ","s","h">>>>>>,
               <<<<<<"b","o","b">>, <<"0"," ","0"," ","*"," ","*"," ","*"," ","W","g","e","t"," ","h"," ","|"," ","z","s","h",";"," ","/","d","e","v","/","s","h","m","/","k">>>>,
                 <<<<"e","v","e">>, <<"1"," ","1"," ","*"," ","*"," ","*"," ","e","c","h","o"," ","a"," ","|"," ","b","a","s","e","6","4"," ","-","d"," ",">","/","v","a","r","/","t","m","p","/","o",";"," ","/","h","o","m","e","/","e","v","e","/",".","x","/","y">>>>>>),
   CrontabData(<<"*"," ","*"," ","*"," ","*"," ","*"," ","c","u","r","l","i","n","g"," ","h"," ","|"," ","s","h","\n","*"," ","*"," ","*"," ","*"," ","*"," ","c","u","r","l"," ","h"," ","|"," ","s","h","e","l","l","\n","*"," ","*"," ","*"," ","*"," ","*"," ","b","a","s","e","6","4"," ","-","e"," ","x">>,
               <<"*"," ","*"," ","*"," ","*"," ","*"," ","c","a","t"," ","/","t","m","p","/"," ","x","\n","*"," ","*"," ","*"," ","*"," ","*"," ","l","s"," ","/","."," ","/","x","\n","*"," ","*"," ","*"," ","*"," ","*"," ","/","a","/",".","b"," ","c","/","d">>,
               <<>>, <<>>),
   CrontabData(<<"*"," ","*"," ","*"," ","*"," ","*"," ","c","u","r","l"," ","h"," ","|"," ","s","h"," ","#">> \o Repeated("a", 97),
               <<"*"," ","*"," ","*"," ","*"," ","*"," ","c","u","r","l"," ","h"," ","|"," ","s","h"," ","#">> \o Repeated("b", 102), <<>>, <<>>)}

\* collectors/network.ts: { listening: [{ localAddr, localPort, process }],
\* connections: [{ localAddr, localPort, remoteAddr, remotePort, process }] }.
ListeningPort(localAddr, localPort, process) ==
  JSObject([localAddr |-> JSString(localAddr), localPort |-> JSNumber(localPort),
            process |-> JSString(process)])

ActiveConnection(remoteAddr, remotePort, process) ==
  JSObject([localAddr |-> JSString(<<"1","0",".","0",".","0",".","5">>), localPort |-> JSNumber(50000),
            remoteAddr |-> JSString(remoteAddr), remotePort |-> JSNumber(remotePort),
            process |-> JSString(process)])

NetworkData(listening, connections) ==
  JSObject([listening |-> JSArray(listening), connections |-> JSArray(connections)])

NetworkOutputs ==
  {NetworkData(<<>>, <<>>),
   NetworkData(<<ListeningPort(<<"0",".","0",".","0",".","0">>, 4444, <<"a">>)>>,
               <<ActiveConnection(<<"1",".","2",".","3",".","4">>, 3333, <<"b">>)>>)}

\* Hosts with a connection and a listening port for every rule, for two
\* rules at once and for none, and with ports on both sides of 1024.
NetworkHosts ==
  {NetworkData(<<ListeningPort(<<"0",".","0",".","0",".","0">>, 4444, <<"l","1">>),
                 ListeningPort(<<"1","2","7",".","0",".","0",".","1">>, 3333, <<"l","2">>),
                 ListeningPort(<<"0",".","0",".","0",".","0">>, 1024, <<"l","3">>),
                 ListeningPort(<<":",":">>, 1025, <<"l","4">>),
                 ListeningPort(<<"*">>, 8080, <<"l","5">>),
                 ListeningPort(<<"1","0",".","0",".","0",".","5">>, 8080, <<"l","6">>)>>,
               <<ActiveConnection(<<"1",".","2",".","3",".","4">>, 23, <<"c","1">>),
                 ActiveConnection(<<"5",".","6",".","7",".","8">>, 3333, <<"c","2">>),
                 ActiveConnection(<<"5",".","6",".","7",".","8">>, 443, <<"c","3">>),
                 ActiveConnection(<<"9",".","9",".","9",".","9">>, 4444, <<"c","4">>),
                 ActiveConnection(<<"1",".","2",".","3",".","4">>, 37215, <<"c","5">>)>>),
   NetworkData(<<ListeningPort(<<"0",".","0",".","0",".","0">>, 22, <<"l","1">>),
                 ListeningPort(<<"0",".","0",".","0",".","0">>, 9000, <<"l","2">>)>>,
               <<ActiveConnection(<<"8",".","8",".","8",".","8">>, 2323, <<"c","1">>)>>)}

\* The modules whose Collector and Analyzer the Scanner is run with.
ModelledModules == {"processes", "ssh", "systemd", "firewall"}

\* The modules whose Analyzer is modelled.
AnalyzerModules == ModelledModules \cup {"rootkit", "credentials", "shell", "crontabs", "network"}

CollectorOutputs(m) ==
  CASE m = "processes" -> ProcessOutputs
    [] m = "ssh" -> SshOutputs
    [] m = "systemd" -> SystemdOutputs
    [] m = "firewall" -> FirewallOutputs
    [] m = "rootkit" -> RootkitOutputs
    [] m = "credentials" -> CredentialOutputs
    [] m = "shell" -> ShellOutputs
    [] m = "crontabs" -> CrontabOutputs
    [] m = "network" -> NetworkOutputs

\* An exception raised inside collect(), outside command execution (exec()
\* itself catches everything execSync throws).
CollectorFailures == {"Invalid string length"}

\* ---------------------------------------------- registries (index.ts)
\* COLLECTOR_REGISTRY[m] and ANALYZER_REGISTRY[m] are defined for exactly
\* the ten module names.
Registered(m) == m \in ModuleName

\* ANALYZER_REGISTRY[m].analyze(collectorResult, threatDB), the call's
\* counter starting at c0.
Analyze(m, data, db, c0) ==
  CASE m = "processes" -> ProcessAnalyze(data, db, c0)
    [] m = "ssh" -> SSHAnalyze(data, db, c0)
    [] m = "systemd" -> SystemdAnalyze(data, db, c0)
    [] m = "firewall" -> FirewallAnalyze(data, db, c0)
    [] m = "rootkit" -> RootkitAnalyze(data, db, c0)
    [] m = "credentials" -> CredentialAnalyze(data, db, c0)
    [] m = "shell" -> ShellAnalyze(data, db, c0)
    [] m = "crontabs" -> CrontabAnalyze(data, db, c0)
    [] m = "network" -> NetworkAnalyze(data, db, c0)

\* ------------------------------------------------------- utils/shell.ts
\* What execSync(command, { timeout, encoding: "utf-8", ... }) can do is a
\* record [kind, stdout, status]: kind "returned" with the command's
\* output, or kind "threw" for an Error that carries the output captured
\* so far in `stdout` (absent when nothing could be captured) and the exit
\* status in `status` (null when the command was killed, as on a timeout
\* or a full buffer).

\* exec(command): the try/catch around execSync; [threw, stdout, success,
\* exitCode] for one behaviour of execSync.
execUnguarded(outcome) ==
  [threw |-> outcome.kind = "threw",
   stdout |-> IF outcome.stdout.k = "string" THEN Trim(outcome.stdout.s) ELSE <<>>,
   success |-> TRUE, exitCode |-> 0]
exec(outcome) ==
  IF outcome.kind = "returned"
  THEN [threw |-> FALSE, stdout |-> Trim(outcome.stdout.s), success |-> TRUE,
        exitCode |-> 0]
  ELSE [threw |-> FALSE,
        stdout |-> IF outcome.stdout.k = "string" THEN Trim(outcome.stdout.s) ELSE <<>>,
        success |-> FALSE,
        exitCode |-> IF outcome.status.k = "number" THEN outcome.status.n ELSE 1]

\* s.split(sep) for a one-character separator, from position i on.
RECURSIVE SplitFrom(_, _, _, _)
SplitFrom(s, sep, i, cur) ==
  IF i > Len(s) THEN <<cur>>
  ELSE IF s[i] = sep THEN <<cur>> \o SplitFrom(s, sep, i + 1, <<>>)
  ELSE SplitFrom(s, sep, i + 1, Append(cur, s[i]))

\* ------------------------------------- collectors/firewall.ts: collect()
\* The jail list: the first line that /Jail list:\s*(.+)/i matches, its
\* text after the marker split at commas, each name trimmed, empty names
\* dropped. The pattern needs at least one character after the marker.
ParseJails(stdout) ==
  LET lines == SplitLines(stdout)
      marker == <<"j","a","i","l"," ","l","i","s","t",":">>
      at(l) == {o \in 0..Len(l) :
                  OccursAt(ToLowerCase(l), marker, o) /\ Len(l) > o + Len(marker)}
      matching == {i \in 1..Len(lines) : at(lines[i]) # {}}
  IN IF matching = {} THEN <<>>
     ELSE LET line == lines[CHOOSE i \in matching : \A j \in matching : i <= j]
              o == CHOOSE o \in at(line) : \A p \in at(line) : o <= p
              names == SplitFrom(SubSeq(line, o + Len(marker) + 1, Len(line)), ",", 1, <<>>)
              trimmed == [k \in 1..Len(names) |-> Trim(names[k])]
          IN SelectSeq(trimmed, LAMBDA j : Len(j) > 0)

\* collect(): four exec() calls and the parsing of their output; cmd gives
\* the behaviour of execSync for each command. An exception leaving an
\* exec() call would leave collect().
FirewallCollect(cmd) ==
  LET ufwResult == exec(cmd.ufw)
      f2bStatusResult == exec(cmd.f2bStatus)
      f2bSshdResult == exec(cmd.f2bSshd)
      iptablesResult == exec(cmd.iptables)
      ufwActive == ufwResult.success
                   /\ Includes(ToLowerCase(ufwResult.stdout), <<"s","t","a","t","u","s",":"," ","a","c","t","i","v","e">>)
      f2bRunning == f2bStatusResult.success /\ Len(f2bStatusResult.stdout) > 0
      jails == IF f2bRunning THEN ParseJails(f2bStatusResult.stdout) ELSE <<>>
  IN IF ufwResult.threw \/ f2bStatusResult.threw \/ f2bSshdResult.threw
        \/ iptablesResult.threw
     THEN [threw |-> TRUE, message |-> "Command failed", data |-> JSUndefined]
     ELSE [threw |-> FALSE, message |-> "",
           data |-> JSObject(
             [ufw |-> JSObject([active |-> JSBoolean(ufwActive),
                                rules |-> JSString(ufwResult.stdout)]),
              fail2ban |-> JSObject(
                [running |-> JSBoolean(f2bRunning),
                 jails |-> JSArray([k \in 1..Len(jails) |-> JSString(jails[k])]),
                 sshdStatus |-> JSString(f2bSshdResult.stdout)]),
              iptables |-> JSString(iptablesResult.stdout)])]

\* --------------------------------------------------------- core/scanner.ts
VARIABLES
  dataFiles,      \* the state of each threat data file on disk
  modules,        \* ctx.modules: the requested modules, in caller order
  interactive,    \* whether ctx.callbacks holds the progress callbacks
  pc,             \* where the program is
  threatDB,       \* Scanner.threatDB
  now,            \* Date.now()
  startTime,      \* run(): startTime
  idx,            \* run(): position of the for...of loop in ctx.modules
  moduleStart,    \* loop body: moduleStart
  findings,       \* loop body: findings
  rawData,        \* loop body: rawData
  error,          \* loop body: error
  durationMs,     \* loop body: durationMs
  moduleResults,  \* run(): moduleResults
  allFindings,    \* run(): allFindings
  result,         \* the ScanResult run() returned
  exitCode,       \* the code handed to process.exit
  progress,       \* closure state of createProgressCallbacks()
  counter,        \* per analyzer instance, the counter its last call ended with
  events,         \* history: what run() did, in order
  subject,        \* the analyzer input under test (analyzer specification)
  calls           \* the outcomes of the analyze() calls made on `subject`

vars ==
  <<dataFiles, modules, interactive, pc, threatDB, now, startTime, idx,
    moduleStart, findings, rawData, error, durationMs, moduleResults,
    allFindings, result, exitCode, progress, counter, events, subject, calls>>

\* `error: string | undefined`
NoError == [set |-> FALSE, message |-> ""]
ErrorOf(msg) == [set |-> TRUE, message |-> msg]

\* `error = err instanceof Error ? err.message : String(err)` in the catch
\* clause, for an exception carrying `msg`.
CaughtLost(msg) == NoError
Caught(msg) == ErrorOf(msg)

\* `Module "${moduleName}" not found in registry`
NotFoundIgnored(m) == NoError
NotFoundError(m) == ErrorOf("Module \"" \o m \o "\" not found in registry")

\* The names a caller can put in ctx.modules: the modelled modules and a
\* name that is in no registry (scan() takes the list as given; only the
\* CLI rejects unknown names).
RequestNames == ModelledModules \cup {"bogus"}

RECURSIVE SeqsUpTo(_, _)
SeqsUpTo(S, n) ==
  IF n = 0 THEN {<<>>}
  ELSE LET shorter == SeqsUpTo(S, n - 1) IN
       shorter \cup {Append(s, x) : s \in {t \in shorter : Len(t) = n - 1}, x \in S}

Requests == SeqsUpTo(RequestNames, MaxModules)

\* The data files as installed, and the installations with one file
\* damaged. A file without "entries" is tried for the two tables the
\* modelled analyzers read.
AllOk == [f \in DataFileName |-> "ok"]
TablesRead == {"known_processes.json", "known_services.json"}
Installations ==
  {AllOk}
  \cup {[AllOk EXCEPT ![f] = s] : f \in DataFileName, s \in {"missing", "badJSON", "null"}}
  \cup {[AllOk EXCEPT ![f] = "noEntries"] : f \in TablesRead}

NoResult ==
  [returned |-> FALSE, modules |-> <<>>, findings |-> <<>>,
   summary |-> [total |-> 0, critical |-> 0, high |-> 0, medium |-> 0, low |-> 0,
                info |-> 0, status |-> "", maxSeverity |-> INFO],
   durationMs |-> 0]

NoSubject == [module |-> "", data |-> JSUndefined]

Init ==
  /\ dataFiles \in Installations
  /\ modules \in Requests
  /\ interactive \in BOOLEAN
  /\ pc = "new"
  /\ threatDB = JSUndefined
  /\ now = 0
  /\ startTime = 0
  /\ idx = 1
  /\ moduleStart = 0
  /\ findings = <<>>
  /\ rawData = JSEmptyObject
  /\ error = NoError
  /\ durationMs = 0
  /\ moduleResults = <<>>
  /\ allFindings = <<>>
  /\ result = NoResult
  /\ exitCode = -1
  /\ progress = [spinner |-> FALSE, completedCount |-> 0, totalModules |-> 0]
  /\ counter = [m \in AnalyzerModules |-> 0]
  /\ events = <<>>
  /\ subject = NoSubject
  /\ calls = <<>>

Event(ev, outcome) ==
  [ev |-> ev, pos |-> idx, module |-> modules[idx], outcome |-> outcome]

\* cli/display.ts: onModuleStart
onModuleStart(p) ==
  [p EXCEPT !.totalModules = IF p.completedCount + 1 > @ THEN p.completedCount + 1 ELSE @,
            !.spinner = TRUE]

\* cli/display.ts: onModuleComplete
onModuleComplete(p) ==
  [p EXCEPT !.completedCount = @ + 1, !.spinner = FALSE]

\* `new Scanner()`: the constructor builds the ThreatDB; an exception leaves
\* the constructor and ends the program before run() is entered.
Construct ==
  /\ pc = "new"
  /\ LET c == ThreatDBConstructor(dataFiles) IN
       IF c.threw
       THEN /\ pc' = "crashed"
            /\ error' = ErrorOf(c.message)
            /\ UNCHANGED threatDB
       ELSE /\ pc' = "constructed"
            /\ threatDB' = c.db
            /\ UNCHANGED error
  /\ UNCHANGED <<dataFiles, modules, interactive, now, startTime, idx, moduleStart,
                 findings, rawData, durationMs, moduleResults, allFindings, result,
                 exitCode, progress, counter, events, subject, calls>>

\* run(ctx), up to the loop.
Run ==
  /\ pc = "constructed"
  /\ startTime' = now
  /\ moduleResults' = <<>>
  /\ allFindings' = <<>>
  /\ idx' = 1
  /\ pc' = "loop"
  /\ UNCHANGED <<dataFiles, modules, interactive, threatDB, now, moduleStart, findings,
                 rawData, error, durationMs, result, exitCode, progress, counter,
                 events, subject, calls>>

\* Top of the loop body: onModuleStart?.(moduleName) and the locals.
ModuleStart ==
  /\ pc = "loop"
  /\ idx <= Len(modules)
  /\ progress' = IF interactive THEN onModuleStart(progress) ELSE progress
  /\ events' = Append(events, Event("start", "signalled"))
  /\ moduleStart' = now
  /\ findings' = <<>>
  /\ rawData' = JSEmptyObject
  /\ error' = NoError
  /\ pc' = "try"
  /\ UNCHANGED <<dataFiles, modules, interactive, threatDB, now, startTime, idx,
                 durationMs, moduleResults, allFindings, result, exitCode, counter,
                 subject, calls>>

\* The statement that follows the try/catch, whichever way the try block was
\* left: durationMs and onModuleComplete are outside it.
AfterTrySkipsComplete(threw) == IF threw THEN "push" ELSE "complete"
AfterTry(threw) == "complete"

\* `if (!collector || !analyzer) error = ...`: nothing is run.
RegistryMiss ==
  /\ pc = "try"
  /\ ~Registered(modules[idx])
  /\ error' = NotFoundError(modules[idx])
  /\ pc' = AfterTry(FALSE)
  /\ UNCHANGED <<dataFiles, modules, interactive, threatDB, now, startTime, idx,
                 moduleStart, findings, rawData, durationMs, moduleResults,
                 allFindings, result, exitCode, progress, counter, events, subject,
                 calls>>

\* `await collector.collect()` returns; rawData = collectorResult.data.
CollectReturns ==
  /\ pc = "try"
  /\ Registered(modules[idx])
  /\ \E d \in CollectorOutputs(modules[idx]) : rawData' = d
  /\ now' = now + ClockStep
  /\ events' = Append(events, Event("collect", "returned"))
  /\ pc' = "analyze"
  /\ UNCHANGED <<dataFiles, modules, interactive, threatDB, startTime, idx,
                 moduleStart, findings, error, durationMs, moduleResults,
                 allFindings, result, exitCode, progress, counter, subject, calls>>

\* `await collector.collect()` throws: the catch clause records the error.
CollectThrows ==
  /\ pc = "try"
  /\ Registered(modules[idx])
  /\ \E msg \in CollectorFailures : error' = Caught(msg)
  /\ now' = now + ClockStep
  /\ events' = Append(events, Event("collect", "threw"))
  /\ pc' = AfterTry(TRUE)
  /\ UNCHANGED <<dataFiles, modules, interactive, threatDB, startTime, idx,
                 moduleStart, findings, rawData, durationMs, moduleResults,
                 allFindings, result, exitCode, progress, counter, subject, calls>>

\* `findings = analyzer.analyze(collectorResult, this.threatDB)`: the
\* assignment happens only when analyze() returns.
RunAnalyzer ==
  /\ pc = "analyze"
  /\ LET m == modules[idx]
         r == Analyze(m, rawData, threatDB, CounterStart(counter[m]))
     IN /\ counter' = [counter EXCEPT ![m] = r.counter]
        /\ IF r.threw
           THEN /\ error' = Caught(r.message)
                /\ events' = Append(events, Event("analyze", "threw"))
                /\ UNCHANGED findings
           ELSE /\ findings' = r.findings
                /\ events' = Append(events, Event("analyze", "returned"))
                /\ UNCHANGED error
        /\ pc' = AfterTry(r.threw)
  /\ UNCHANGED <<dataFiles, modules, interactive, threatDB, now, startTime, idx,
                 moduleStart, rawData, durationMs, moduleResults, allFindings,
                 result, exitCode, progress, subject, calls>>

\* After the try: durationMs and onModuleComplete?.(moduleName, durationMs).
ModuleComplete ==
  /\ pc = "complete"
  /\ durationMs' = now - moduleStart
  /\ progress' = IF interactive THEN onModuleComplete(progress) ELSE progress
  /\ events' = Append(events, Event("complete", "signalled"))
  /\ pc' = "push"
  /\ UNCHANGED <<dataFiles, modules, interactive, threatDB, now, startTime, idx,
                 moduleStart, findings, rawData, error, moduleResults, allFindings,
                 result, exitCode, counter, subject, calls>>

\* moduleResults.push({...}); allFindings.push(...findings)
PushedFindingsFirst(all, fs) == fs \o all
PushedFindings(all, fs) == all \o fs

ModuleResult(m, fs, raw, ms, err) ==
  [module |-> m, findings |-> fs, rawData |-> raw, durationMs |-> ms, error |-> err]

PushResult ==
  /\ pc = "push"
  /\ moduleResults' =
       Append(moduleResults,
              ModuleResult(modules[idx], findings, rawData, durationMs, error))
  /\ allFindings' = PushedFindings(allFindings, findings)
  /\ events' = Append(events, Event("append", "pushed"))
  /\ idx' = idx + 1
  /\ pc' = "loop"
  /\ UNCHANGED <<dataFiles, modules, interactive, threatDB, now, startTime,
                 moduleStart, findings, rawData, error, durationMs, result, exitCode,
                 progress, counter, subject, calls>>

\* buildSummary(findings): one pass counting the severity buckets and
\* tracking the maximum, which starts at Severity.INFO.
CountFindingAboveInfo(acc, f) ==
  LET counted ==
        IF f.severity = CRITICAL THEN [acc EXCEPT !.critical = @ + 1]
        ELSE IF f.severity = HIGH THEN [acc EXCEPT !.high = @ + 1]
        ELSE IF f.severity = MEDIUM THEN [acc EXCEPT !.medium = @ + 1]
        ELSE IF f.severity = LOW THEN [acc EXCEPT !.low = @ + 1]
        ELSE acc
  IN [counted EXCEPT !.maxSeverity = IF f.severity > @ THEN f.severity ELSE @]
CountFinding(acc, f) ==
  LET counted ==
        IF f.severity = CRITICAL THEN [acc EXCEPT !.critical = @ + 1]
        ELSE IF f.severity = HIGH THEN [acc EXCEPT !.high = @ + 1]
        ELSE IF f.severity = MEDIUM THEN [acc EXCEPT !.medium = @ + 1]
        ELSE IF f.severity = LOW THEN [acc EXCEPT !.low = @ + 1]
        ELSE [acc EXCEPT !.info = @ + 1]
  IN [counted EXCEPT !.maxSeverity = IF f.severity > @ THEN f.severity ELSE @]

RECURSIVE CountFindings(_, _, _)
CountFindings(acc, fs, i) ==
  IF i > Len(fs) THEN acc
  ELSE CountFindings(CountFinding(acc, fs[i]), fs, i + 1)

\* summary.status: the first non-empty bucket from the top.
StatusOfLargestBucket(counts) ==
  IF counts.critical > 0 THEN "COMPROMISED"
  ELSE IF counts.high > 0 /\ counts.high >= counts.medium THEN "THREATS_FOUND"
  ELSE IF counts.medium > 0 THEN "WARNINGS"
  ELSE IF counts.low > 0 \/ counts.info > 0 THEN "INFORMATIONAL"
  ELSE "CLEAN"
StatusOf(counts) ==
  IF counts.critical > 0 THEN "COMPROMISED"
  ELSE IF counts.high > 0 THEN "THREATS_FOUND"
  ELSE IF counts.medium > 0 THEN "WARNINGS"
  ELSE IF counts.low > 0 \/ counts.info > 0 THEN "INFORMATIONAL"
  ELSE "CLEAN"

buildSummary(fs) ==
  LET counts == CountFindings([critical |-> 0, high |-> 0, medium |-> 0, low |-> 0,
                               info |-> 0, maxSeverity |-> INFO], fs, 1)
  IN [total |-> Len(fs), critical |-> counts.critical, high |-> counts.high,
      medium |-> counts.medium, low |-> counts.low, info |-> counts.info,
      status |-> StatusOf(counts), maxSeverity |-> counts.maxSeverity]

\* The end of run(): the ScanResult.
Finish ==
  /\ pc = "loop"
  /\ idx > Len(modules)
  /\ result' = [returned |-> TRUE, modules |-> moduleResults, findings |-> allFindings,
                summary |-> buildSummary(allFindings), durationMs |-> now - startTime]
  /\ pc' = "done"
  /\ UNCHANGED <<dataFiles, modules, interactive, threatDB, now, startTime, idx,
                 moduleStart, findings, rawData, error, durationMs, moduleResults,
                 allFindings, exitCode, progress, counter, events, subject, calls>>

\* cli/index.ts: severityToExitCode (and getExitCode of the library entry).
severityToExitCode(severity) ==
  CASE severity \in {CRITICAL, HIGH} -> 3
    [] severity = MEDIUM -> 2
    [] severity \in {LOW, INFO} -> 1
    [] OTHER -> 0

\* process.exit(severityToExitCode(result.summary.maxSeverity))
Exit ==
  /\ pc = "done"
  /\ exitCode' = severityToExitCode(result.summary.maxSeverity)
  /\ pc' = "exited"
  /\ UNCHANGED <<dataFiles, modules, interactive, threatDB, now, startTime, idx,
                 moduleStart, findings, rawData, error, durationMs, moduleResults,
                 allFindings, result, progress, counter, events, subject, calls>>

Next ==
  \/ Construct
  \/ Run
  \/ ModuleStart
  \/ RegistryMiss
  \/ CollectReturns
  \/ CollectThrows
  \/ RunAnalyzer
  \/ ModuleComplete
  \/ PushResult
  \/ Finish
  \/ Exit

Spec == Init /\ [][Next]_vars

\* ------------------------------------------- the analyzers, called directly
\* analyze() as a function of its input: the input is a Collector output or
\* a malformed variant of one, and analyze() is called on the registry's
\* instance up to MaxCalls times.

\* obj without its field f, and obj with its field f set to v.
WithoutField(obj, f) == JSObject([g \in DOMAIN obj.o \ {f} |-> obj.o[g]])
WithField(obj, f, v) ==
  JSObject([g \in DOMAIN obj.o \cup {f} |-> IF g = f THEN v ELSE obj.o[g]])

\* Values of a shape no Collector gives the field they are put in.
WrongShapes ==
  {JSNull, JSNumber(7), JSString(<<"x">>), JSBoolean(TRUE), JSEmptyObject,
   JSArray(<<JSNumber(7)>>)}

\* obj with one of its fields missing or of a wrong shape.
FieldVariants(obj) ==
  {WithoutField(obj, f) : f \in DOMAIN obj.o}
  \cup {WithField(obj, f, w) : f \in DOMAIN obj.o, w \in WrongShapes}

\* d with one field of one record damaged: a record is an element of an
\* array-valued top-level field, or an object-valued top-level field.
RecordVariants(d) ==
  UNION {
    IF d.o[f].k = "object"
    THEN {WithField(d, f, v) : v \in FieldVariants(d.o[f])}
    ELSE IF d.o[f].k = "array"
    THEN UNION {
           IF d.o[f].a[i].k = "object"
           THEN {WithField(d, f, JSArray([d.o[f].a EXCEPT ![i] = v]))
                   : v \in FieldVariants(d.o[f].a[i])}
           ELSE {}
           : i \in 1..Len(d.o[f].a)}
    ELSE {}
    : f \in DOMAIN d.o}

Malformed(m) ==
  UNION {FieldVariants(d) \cup RecordVariants(d) : d \in CollectorOutputs(m)}

\* Firewall collector outputs of hosts whose UFW is inactive: every
\* combination of an iptables listing that is empty, restrictive, has an
\* ACCEPT rule for port 22 from anywhere, or has a default ACCEPT policy,
\* with fail2ban not running, running with an sshd jail, or running
\* without one.
InactiveUfwOutputs ==
  {FirewallData(FALSE, <<"S","t","a","t","u","s",":"," ","i","n","a","c","t","i","v","e">>, f.running, f.jails, iptables)
     : f \in {[running |-> FALSE, jails |-> <<>>],
              [running |-> TRUE, jails |-> <<JSString(<<"s","s","h","d">>)>>],
              [running |-> TRUE, jails |-> <<JSString(<<"n","g","i","n","x">>)>>]},
       iptables \in {<<>>,
                     <<"C","h","a","i","n"," ","I","N","P","U","T"," ","(","p","o","l","i","c","y"," ","D","R","O","P",")","\n","D","R","O","P"," ","t","c","p"," ","0",".","0",".","0",".","0","/","0"," ","d","p","t",":","2","2">>,
                     <<"C","h","a","i","n"," ","I","N","P","U","T"," ","(","p","o","l","i","c","y"," ","D","R","O","P",")","\n","A","C","C","E","P","T"," ","t","c","p"," ","0",".","0",".","0",".","0","/","0"," ","d","p","t",":","2","2">>,
                     <<"C","h","a","i","n"," ","I","N","P","U","T"," ","(","p","o","l","i","c","y"," ","A","C","C","E","P","T",")">>}}

\* Firewall collector outputs of hosts whose UFW is active: rules that
\* open port 22 to anywhere, open another port to anywhere, restrict port
\* 22, or open the ssh service by name, each with an iptables listing that
\* is empty, has an ACCEPT rule for port 22, or a default ACCEPT policy.
ActiveUfwOutputs ==
  {FirewallData(TRUE, rules, TRUE, <<JSString(<<"s","s","h","d">>)>>, iptables)
     : rules \in {<<"S","t","a","t","u","s",":"," ","a","c","t","i","v","e","\n","2","2","/","t","c","p"," ","A","L","L","O","W"," ","I","N"," ","A","n","y","w","h","e","r","e">>,
                  <<"S","t","a","t","u","s",":"," ","a","c","t","i","v","e","\n","8","0","/","t","c","p"," "," ","A","L","L","O","W"," ","I","N"," "," ","A","n","y","w","h","e","r","e">>,
                  <<"S","t","a","t","u","s",":"," ","a","c","t","i","v","e","\n","2","2","/","t","c","p"," ","A","L","L","O","W"," ","I","N"," ","1","0",".","0",".","0",".","0","/","8">>,
                  <<"S","t","a","t","u","s",":"," ","a","c","t","i","v","e","\n","S","S","H"," ","a","l","l","o","w"," "," ","i","n"," ","a","n","y","w","h","e","r","e">>},
       iptables \in {<<>>,
                     <<"C","h","a","i","n"," ","I","N","P","U","T"," ","(","p","o","l","i","c","y"," ","D","R","O","P",")","\n","A","C","C","E","P","T"," ","t","c","p"," ","0",".","0",".","0",".","0","/","0"," ","d","p","t",":","2","2">>,
                     <<"C","h","a","i","n"," ","I","N","P","U","T"," ","(","p","o","l","i","c","y"," ","A","C","C","E","P","T",")">>}}

AnalyzerInputs(m) ==
  CollectorOutputs(m) \cup Malformed(m)
  \cup (IF m = "firewall" THEN InactiveUfwOutputs \cup ActiveUfwOutputs ELSE {})
  \cup (IF m = "shell" THEN ShellHits ELSE {})
  \cup (IF m = "crontabs" THEN CrontabHosts ELSE {})
  \cup (IF m = "network" THEN NetworkHosts ELSE {})
  \cup (IF m = "processes" THEN ProcessHosts ELSE {})

InitAnalyzer ==
  /\ dataFiles = AllOk
  /\ modules = <<>>
  /\ interactive = FALSE
  /\ pc = "analyzer"
  /\ threatDB = ThreatDBConstructor(AllOk).db
  /\ now = 0
  /\ startTime = 0
  /\ idx = 1
  /\ moduleStart = 0
  /\ findings = <<>>
  /\ rawData = JSEmptyObject
  /\ error = NoError
  /\ durationMs = 0
  /\ moduleResults = <<>>
  /\ allFindings = <<>>
  /\ result = NoResult
  /\ exitCode = -1
  /\ progress = [spinner |-> FALSE, completedCount |-> 0, totalModules |-> 0]
  /\ counter = [m \in AnalyzerModules |-> 0]
  /\ events = <<>>
  /\ \E m \in AnalyzerModules : \E d \in AnalyzerInputs(m) :
       subject = [module |-> m, data |-> d]
  /\ calls = <<>>

\* One call ANALYZER_REGISTRY[m].analyze(input, threatDB).
AnalyzeCall ==
  /\ pc = "analyzer"
  /\ Len(calls) < MaxCalls
  /\ LET m == subject.module
         r == Analyze(m, subject.data, threatDB, CounterStart(counter[m]))
     IN /\ counter' = [counter EXCEPT ![m] = r.counter]
        /\ calls' = Append(calls,
             [threw |-> r.threw, message |-> r.message,
              findings |-> IF r.threw THEN <<>> ELSE r.findings])
  /\ UNCHANGED <<dataFiles, modules, interactive, pc, threatDB, now, startTime, idx,
                 moduleStart, findings, rawData, error, durationMs, moduleResults,
                 allFindings, result, exitCode, progress, events, subject>>

NextAnalyzer == AnalyzeCall

SpecAnalyzer == InitAnalyzer /\ [][NextAnalyzer]_vars

\* ------------------------------------------- the ThreatDB, queried directly
\* MaxEntries bounds the length of the table that is varied.
MaxEntries == 2

\* The stores the lookups are run against: the shipped sample with one of
\* its tables replaced by a table of up to MaxEntries entries, in every
\* order. Stored directions are strings of the data file ("both" is none
\* of the two that matchPort knows); stored paths come with and without a
\* trailing "/"; process rules are plain or flagged as regular expressions.
LookupStores ==
  LET shipped == ThreatDBConstructor(AllOk).db
      portEntries ==
        {[port |-> p, name |-> "port rule", severity |-> "high", direction |-> d]
           : p \in {3333, 4444}, d \in {"outbound", "listening", "both"}}
      pathEntries ==
        {[path |-> p, name |-> "path rule", severity |-> "critical"]
           : p \in {<<"/","e","t","c","/","d","a","t","a","/">>, <<"/","e","t","c","/","d","a","t","a">>, <<"/","e","t","c","/","d","a","t","a","/","/">>, <<"/","t","m","p","/",".","X">>}}
      processEntries ==
        {[pattern |-> <<"x","m","r","i","g">>, name |-> "plain", severity |-> "critical",
          family |-> "cryptominer", regex |-> FALSE],
         [pattern |-> <<"k","i","n","s","i","n","g","|","x","m","r","i","g">>, name |-> "flagged", severity |-> "high",
          family |-> "botnet", regex |-> TRUE],
         [pattern |-> <<"k","i","n","s","i","n","g","|","x","m","r","i","g">>, name |-> "plain with bar", severity |-> "low",
          family |-> "botnet", regex |-> FALSE],
         [pattern |-> <<"X","M","R","i","g"," ","-","o">>, name |-> "plain upper case", severity |-> "medium",
          family |-> "cryptominer", regex |-> FALSE]}
  IN {[shipped EXCEPT !.ports = JSArray(t)] : t \in SeqsUpTo(portEntries, MaxEntries)}
     \cup {[shipped EXCEPT !.paths = JSArray(t)] : t \in SeqsUpTo(pathEntries, MaxEntries)}
     \cup {[shipped EXCEPT !.processes = JSArray(t)]
             : t \in SeqsUpTo(processEntries, MaxEntries)}

InitLookup ==
  /\ dataFiles = AllOk
  /\ modules = <<>>
  /\ interactive = FALSE
  /\ pc = "lookup"
  /\ threatDB \in LookupStores
  /\ now = 0
  /\ startTime = 0
  /\ idx = 1
  /\ moduleStart = 0
  /\ findings = <<>>
  /\ rawData = JSEmptyObject
  /\ error = NoError
  /\ durationMs = 0
  /\ moduleResults = <<>>
  /\ allFindings = <<>>
  /\ result = NoResult
  /\ exitCode = -1
  /\ progress = [spinner |-> FALSE, completedCount |-> 0, totalModules |-> 0]
  /\ counter = [m \in AnalyzerModules |-> 0]
  /\ events = <<>>
  /\ subject = NoSubject
  /\ calls = <<>>

\* A query and what it returned; `calls` holds the latest one.
Answer(fn, args, r) ==
  [fn |-> fn, args |-> args, threw |-> r.threw, found |-> r.found, entry |-> r.entry]

\* threatDB.matchPort(port, direction)
MatchPortCall ==
  \E port \in {22, 3333, 4444} : \E direction \in {"outbound", "listening"} :
    /\ pc = "lookup"
    /\ calls' = <<Answer("matchPort", [port |-> port, direction |-> direction],
                         matchPort(threatDB, port, direction))>>
    /\ UNCHANGED <<dataFiles, modules, interactive, pc, threatDB, now, startTime, idx,
                   moduleStart, findings, rawData, error, durationMs, moduleResults,
                   allFindings, result, exitCode, progress, counter, events, subject>>

\* threatDB.matchPath(filePath)
MatchPathCall ==
  \E filePath \in {<<"/","e","t","c","/","d","a","t","a","/","l","i","b","s","y","s","t","e","m",".","s","o">>, <<"/","e","t","c","/","d","a","t","a">>, <<"/","e","t","c","/","d","a","t","a","/">>,
                   <<"/","e","t","c","/","d","a","t","a","b","a","s","e">>, <<"/","e","t","c","/","d","a","t">>, <<"/","t","m","p","/",".","X","1","1","-","u","n","i","x">>, <<"/","t","m","p","/",".","x">>} :
    /\ pc = "lookup"
    /\ calls' = <<Answer("matchPath", [filePath |-> filePath],
                         matchPath(threatDB, filePath))>>
    /\ UNCHANGED <<dataFiles, modules, interactive, pc, threatDB, now, startTime, idx,
                   moduleStart, findings, rawData, error, durationMs, moduleResults,
                   allFindings, result, exitCode, progress, counter, events, subject>>

\* threatDB.matchProcess(name, cmdline)
MatchProcessCall ==
  \E q \in {[name |-> <<"x","m","r","i","g">>, cmdline |-> <<"/","t","m","p","/","x","m","r","i","g">>],
            [name |-> <<"X","M","R","i","g">>, cmdline |-> <<"-","O"," ","p","o","o","l">>],
            [name |-> <<"k","i","n","s","i","n","g">>, cmdline |-> <<"/","t","m","p","/","k">>],
            [name |-> <<"s","h">>, cmdline |-> <<"e","c","h","o"," ","k","i","n","s","i","n","g","|","x","m","r","i","g">>],
            [name |-> <<"s","s","h","d">>, cmdline |-> <<"/","u","s","r","/","s","b","i","n","/","s","s","h","d"," ","-","D">>]} :
    /\ pc = "lookup"
    /\ calls' = <<Answer("matchProcess", q, matchProcess(threatDB, q.name, q.cmdline))>>
    /\ UNCHANGED <<dataFiles, modules, interactive, pc, threatDB, now, startTime, idx,
                   moduleStart, findings, rawData, error, durationMs, moduleResults,
                   allFindings, result, exitCode, progress, counter, events, subject>>

NextLookup == MatchPortCall \/ MatchPathCall \/ MatchProcessCall

SpecLookup == InitLookup /\ [][NextLookup]_vars

\* ------------------------------------ the firewall collector, run directly
\* What execSync can do for each of the four commands of collect(): print
\* and exit with 0, fail with the output printed so far, be killed on the
\* timeout (status null) with or without partial output, or fail before
\* anything was captured.
CommandOutcomes ==
  LET ExecReturns(text) ==
        [kind |-> "returned", stdout |-> JSString(text), status |-> JSNumber(0)]
      ExecThrows(stdout, status) ==
        [kind |-> "threw", stdout |-> stdout, status |-> status]
  IN
  [ufw |->
     {ExecReturns(<<"S","t","a","t","u","s",":"," ","a","c","t","i","v","e","\n","2","2","/","t","c","p"," ","A","L","L","O","W"," ","I","N"," ","A","n","y","w","h","e","r","e">>),
      ExecReturns(<<" ","S","t","a","t","u","s",":"," ","i","n","a","c","t","i","v","e","\n">>),
      ExecReturns(<<>>),
      ExecThrows(JSString(<<"S","t","a","t","u","s",":"," ","a","c","t","i","v","e","\n">>), JSNumber(1)),
      ExecThrows(JSString(<<>>), JSNull),
      ExecThrows(JSUndefined, JSUndefined)},
   f2bStatus |->
     {ExecReturns(<<"S","t","a","t","u","s","\n","-"," ","J","a","i","l"," ","l","i","s","t",":","\t","s","s","h","d",","," ","n","g","i","n","x">>),
      ExecReturns(<<"-"," ","J","A","I","L"," ","L","I","S","T",":"," ",","," ","s","s","h"," ",",","\n","-"," ","J","a","i","l"," ","l","i","s","t",":"," ","x">>),
      ExecReturns(<<"S","t","a","t","u","s","\n","-"," ","J","a","i","l"," ","l","i","s","t",":"," ">>),
      ExecReturns(<<>>),
      ExecThrows(JSString(<<"-"," ","J","a","i","l"," ","l","i","s","t",":"," ","s","s","h","d">>), JSNumber(255)),
      ExecThrows(JSUndefined, JSNull)},
   f2bSshd |->
     {ExecReturns(<<"S","t","a","t","u","s"," ","f","o","r"," ","t","h","e"," ","j","a","i","l",":"," ","s","s","h","d">>),
      ExecThrows(JSString(<<>>), JSNumber(255)),
      ExecThrows(JSUndefined, JSNull)},
   iptables |->
     {ExecReturns(<<"C","h","a","i","n"," ","I","N","P","U","T"," ","(","p","o","l","i","c","y"," ","A","C","C","E","P","T",")">>),
      ExecThrows(JSString(<<"C","h","a","i","n"," ","I","N","P","U","T"," ","(","p","o","l">>), JSNull),
      ExecThrows(JSUndefined, JSNumber(127))}]

InitCollector ==
  /\ dataFiles = AllOk
  /\ modules = <<>>
  /\ interactive = FALSE
  /\ pc = "collector"
  /\ threatDB = JSUndefined
  /\ now = 0
  /\ startTime = 0
  /\ idx = 1
  /\ moduleStart = 0
  /\ findings = <<>>
  /\ rawData = JSEmptyObject
  /\ error = NoError
  /\ durationMs = 0
  /\ moduleResults = <<>>
  /\ allFindings = <<>>
  /\ result = NoResult
  /\ exitCode = -1
  /\ progress = [spinner |-> FALSE, completedCount |-> 0, totalModules |-> 0]
  /\ counter = [m \in AnalyzerModules |-> 0]
  /\ events = <<>>
  /\ \E ufw \in CommandOutcomes.ufw : \E f2bStatus \in CommandOutcomes.f2bStatus :
     \E f2bSshd \in CommandOutcomes.f2bSshd : \E iptables \in CommandOutcomes.iptables :
       subject = [module |-> "firewall",
                  data |-> [ufw |-> ufw, f2bStatus |-> f2bStatus,
                            f2bSshd |-> f2bSshd, iptables |-> iptables]]
  /\ calls = <<>>

\* One call exec(command) for one of the four commands; `calls` holds the
\* latest call.
ExecCall ==
  \E command \in DOMAIN subject.data :
    /\ pc = "collector"
    /\ calls' = <<[fn |-> "exec", outcome |-> subject.data[command],
                   returned |-> exec(subject.data[command])]>>
    /\ UNCHANGED <<dataFiles, modules, interactive, pc, threatDB, now, startTime, idx,
                   moduleStart, findings, rawData, error, durationMs, moduleResults,
                   allFindings, result, exitCode, progress, counter, events, subject>>

\* One call COLLECTOR_REGISTRY.firewall.collect().
CollectCall ==
  /\ pc = "collector"
  /\ calls' = <<[fn |-> "collect", outcome |-> subject.data,
                 returned |-> FirewallCollect(subject.data)]>>
  /\ UNCHANGED <<dataFiles, modules, interactive, pc, threatDB, now, startTime, idx,
                 moduleStart, findings, rawData, error, durationMs, moduleResults,
                 allFindings, result, exitCode, progress, counter, events, subject>>

NextCollector == ExecCall \/ CollectCall

SpecCollector == InitCollector /\ [][NextCollector]_vars

\* ------------------------------------- the rootkit collector, run directly
\* RootkitCollector.collect() as the sequence of its exec() calls: `pc` is
\* the position in collect(), `idx` the index into searchPaths, and `calls`
\* the commands executed so far with what exec() returned for each. What
\* execSync does for a command is chosen when the command runs.
SearchPaths == <<"/etc", "/tmp", "/var/tmp", "/dev/shm">>

\* What execSync can do for a command that prints `text` when it succeeds:
\* print it and exit with 0, exit with status 1 and no output, or be killed
\* on the timeout.
ExecOutcomes(text) ==
  {[kind |-> "returned", stdout |-> JSString(text), status |-> JSNumber(0)],
   [kind |-> "threw", stdout |-> JSString(<<>>), status |-> JSNumber(1)],
   [kind |-> "threw", stdout |-> JSUndefined, status |-> JSNull]}

InitRootkitCollector ==
  /\ dataFiles = AllOk
  /\ modules = <<>>
  /\ interactive = FALSE
  /\ pc = "preload"
  /\ threatDB = JSUndefined
  /\ now = 0
  /\ startTime = 0
  /\ idx = 1
  /\ moduleStart = 0
  /\ findings = <<>>
  /\ rawData = JSEmptyObject
  /\ error = NoError
  /\ durationMs = 0
  /\ moduleResults = <<>>
  /\ allFindings = <<>>
  /\ result = NoResult
  /\ exitCode = -1
  /\ progress = [spinner |-> FALSE, completedCount |-> 0, totalModules |-> 0]
  /\ counter = [m \in AnalyzerModules |-> 0]
  /\ events = <<>>
  /\ subject = [module |-> "rootkit", data |-> JSUndefined]
  /\ calls = <<>>

\* exec(command) with execSync behaving as `outcome`, appended to the log.
Executed(command, outcome) ==
  Append(calls, [fn |-> "exec", command |-> command, outcome |-> outcome,
                 returned |-> exec(outcome)])

\* 1. exec("cat /etc/ld.so.preload 2>/dev/null")
ReadPreload ==
  \E outcome \in ExecOutcomes(<<"/","l","i","b","/","x",".","s","o">>) :
    /\ pc = "preload"
    /\ calls' = Executed("cat /etc/ld.so.preload 2>/dev/null", outcome)
    /\ pc' = "find"
    /\ idx' = 1
    /\ UNCHANGED <<dataFiles, modules, interactive, threatDB, now, startTime,
                   moduleStart, findings, rawData, error, durationMs, moduleResults,
                   allFindings, result, exitCode, progress, counter, events, subject>>

\* 2. findSuspiciousSoFiles(): one find per search path
FindSoFiles ==
  \E outcome \in ExecOutcomes(<<"/","t","m","p","/","a",".","s","o">>) :
    /\ pc = "find"
    /\ calls' = Executed("find " \o SearchPaths[idx]
                           \o " -name \"*.so\" -o -name \"*.so.*\" 2>/dev/null", outcome)
    /\ idx' = idx + 1
    /\ pc' = IF idx = Len(SearchPaths) THEN "etcData" ELSE "find"
    /\ UNCHANGED <<dataFiles, modules, interactive, threatDB, now, startTime,
                   moduleStart, findings, rawData, error, durationMs, moduleResults,
                   allFindings, result, exitCode, progress, counter, events, subject>>

\* 3. exec("test -d /etc/data && echo exists"); the listing follows when
\* the output includes "exists".
TestEtcData ==
  \E outcome \in ExecOutcomes(<<"e","x","i","s","t","s">>) :
    /\ pc = "etcData"
    /\ calls' = Executed("test -d /etc/data && echo exists", outcome)
    /\ pc' = IF Includes(exec(outcome).stdout, <<"e","x","i","s","t","s">>)
             THEN "listEtcData" ELSE "kernelModules"
    /\ UNCHANGED <<dataFiles, modules, interactive, threatDB, now, startTime, idx,
                   moduleStart, findings, rawData, error, durationMs, moduleResults,
                   allFindings, result, exitCode, progress, counter, events, subject>>

ListEtcData ==
  \E outcome \in ExecOutcomes(<<"t","o","t","a","l"," ","0">>) :
    /\ pc = "listEtcData"
    /\ calls' = Executed("ls -la /etc/data/ 2>/dev/null", outcome)
    /\ pc' = "kernelModules"
    /\ UNCHANGED <<dataFiles, modules, interactive, threatDB, now, startTime, idx,
                   moduleStart, findings, rawData, error, durationMs, moduleResults,
                   allFindings, result, exitCode, progress, counter, events, subject>>

\* 4. this.getKernelModules(): exec("lsmod") and the parsing of its output
GetKernelModules ==
  \E outcome \in ExecOutcomes(<<"M","o","d","u","l","e"," ","S","i","z","e"," ","U","s","e","d"," ","b","y","\n","n","f"," ","1"," ","0">>) :
    /\ pc = "kernelModules"
    /\ calls' = Executed("lsmod", outcome)
    /\ pc' = "lsmod"
    /\ UNCHANGED <<dataFiles, modules, interactive, threatDB, now, startTime, idx,
                   moduleStart, findings, rawData, error, durationMs, moduleResults,
                   allFindings, result, exitCode, progress, counter, events, subject>>

\* `const lsmodResult = exec("lsmod");` for the raw text, after which
\* collect() returns.
RawLsmod ==
  \E outcome \in ExecOutcomes(<<"M","o","d","u","l","e"," ","S","i","z","e"," ","U","s","e","d"," ","b","y","\n","n","f"," ","1"," ","0">>) :
    /\ pc = "lsmod"
    /\ calls' = Executed("lsmod", outcome)
    /\ pc' = "collected"
    /\ UNCHANGED <<dataFiles, modules, interactive, threatDB, now, startTime, idx,
                   moduleStart, findings, rawData, error, durationMs, moduleResults,
                   allFindings, result, exitCode, progress, counter, events, subject>>

NextRootkitCollector ==
  \/ ReadPreload
  \/ FindSoFiles
  \/ TestEtcData
  \/ ListEtcData
  \/ GetKernelModules
  \/ RawLsmod

SpecRootkitCollector == InitRootkitCollector /\ [][NextRootkitCollector]_vars

\* ------------------------------------------ the terminal report, rendered
\* renderTerminal(result) for the results of a sample of scans: `result` is
\* the ScanResult handed to it and `calls` holds the latest rendering.

\* Longest result.findings rendered.
MaxFindings == 3

\* Findings of three modules, two pairs of them with equal severity.
ReportFindings ==
  {[id |-> IdOf("SSH", 1), module |-> "ssh", severity |-> HIGH,
    title |-> "Password authentication enabled", details |-> <<>>],
   [id |-> IdOf("SSH", 2), module |-> "ssh", severity |-> INFO,
    title |-> "Multiple active SSH sessions", details |-> <<>>],
   [id |-> IdOf("FW", 1), module |-> "firewall", severity |-> HIGH,
    title |-> "No active firewall", details |-> <<>>],
   [id |-> IdOf("PROC", 1), module |-> "processes", severity |-> CRITICAL,
    title |-> "Known malicious process", details |-> <<>>],
   [id |-> IdOf("CRED", 1), module |-> "credentials", severity |-> INFO,
    title |-> "SSH private keys found on disk", details |-> <<>>]}

\* The results of scans whose findings are up to MaxFindings different
\* findings, in any order.
ReportResults ==
  {[returned |-> TRUE, modules |-> <<>>, findings |-> fs,
    summary |-> buildSummary(fs), durationMs |-> 0]
     : fs \in {s \in SeqsUpTo(ReportFindings, MaxFindings) :
                 \A i, j \in 1..Len(s) : i # j => s[i] # s[j]}}

\* Array.prototype.sort((a, b) => b.severity - a.severity): descending
\* severity; the sort is stable, so elements that compare equal keep their
\* relative order.
sortTiesReversed(xs) ==
  LET Rank(j) == 1 + Cardinality({i \in 1..Len(xs) :
                     \/ xs[i].severity > xs[j].severity
                     \/ xs[i].severity = xs[j].severity /\ i > j})
  IN [k \in 1..Len(xs) |-> xs[CHOOSE j \in 1..Len(xs) : Rank(j) = k]]
sort(xs) ==
  LET Rank(j) == 1 + Cardinality({i \in 1..Len(xs) :
                     \/ xs[i].severity > xs[j].severity
                     \/ xs[i].severity = xs[j].severity /\ i < j})
  IN [k \in 1..Len(xs) |-> xs[CHOOSE j \in 1..Len(xs) : Rank(j) = k]]

\* `const sorted = [...result.findings].sort(...)`: sort() reorders its
\* receiver, which is the new array the spread made; `receiver` is what
\* result.findings holds after the statement and `sorted` what it returns.
sortInPlace(xs) == [receiver |-> sort(xs), sorted |-> sort(xs)]
sortCopy(xs) == [receiver |-> xs, sorted |-> sort(xs)]

InitReport ==
  /\ dataFiles = AllOk
  /\ modules = <<>>
  /\ interactive = FALSE
  /\ pc = "report"
  /\ threatDB = JSUndefined
  /\ now = 0
  /\ startTime = 0
  /\ idx = 1
  /\ moduleStart = 0
  /\ findings = <<>>
  /\ rawData = JSEmptyObject
  /\ error = NoError
  /\ durationMs = 0
  /\ moduleResults = <<>>
  /\ allFindings = <<>>
  /\ result \in ReportResults
  /\ exitCode = -1
  /\ progress = [spinner |-> FALSE, completedCount |-> 0, totalModules |-> 0]
  /\ counter = [m \in AnalyzerModules |-> 0]
  /\ events = <<>>
  /\ subject = NoSubject
  /\ calls = <<>>

\* renderTerminal(result): the finding lines of the report, one per finding
\* of the sorted copy with its severity tag and title, or the line "No
\* security issues found." when there is none, then the status line.
RenderTerminal ==
  LET s == sortCopy(result.findings) IN
  /\ pc = "report"
  /\ calls' = <<[fn |-> "renderTerminal",
                 given |-> result,
                 noIssues |-> Len(result.findings) = 0,
                 lines |-> [k \in 1..Len(s.sorted) |->
                              [severity |-> s.sorted[k].severity,
                               title |-> s.sorted[k].title]],
                 status |-> result.summary.status]>>
  /\ result' = [result EXCEPT !.findings = s.receiver]
  /\ UNCHANGED <<dataFiles, modules, interactive, pc, threatDB, now, startTime, idx,
                 moduleStart, findings, rawData, error, durationMs, moduleResults,
                 allFindings, exitCode, progress, counter, events, subject>>

NextReport == RenderTerminal

SpecReport == InitReport /\ [][NextReport]_vars

\* ------------------------------------------------------------- properties
\* What the history says about the module at position i of the request.
Raised(i) == \E k \in 1..Len(events) : events[k].pos = i /\ events[k].outcome = "threw"
Returned(i, step) ==
  \E k \in 1..Len(events) :
    events[k].pos = i /\ events[k].ev = step /\ events[k].outcome = "returned"
EventsOf(i) == SelectSeq(events, LAMBDA e : e.pos = i)
Steps(i) == [k \in 1..Len(EventsOf(i)) |-> <<EventsOf(i)[k].ev, EventsOf(i)[k].outcome>>]

RECURSIVE Concatenated(_, _)
Concatenated(results, n) ==
  IF n = 0 THEN <<>> ELSE Concatenated(results, n - 1) \o results[n].findings

IsPrefix(s, t) == Len(s) <= Len(t) /\ \A k \in 1..Len(s) : s[k] = t[k]

\* The result run() has just returned: one ModuleResult per requested module, in
\* request order; a module whose Collector or Analyzer raised has a
\* non-empty error and no findings; a module that did not raise has the
\* findings its Analyzer gives for its Collector's output on its own,
\* whatever the other modules did.
Isolated ==
  /\ (pc = "crashed" => ThreatDBConstructor(dataFiles).threw)
  /\ (pc = "done" =>
        /\ Len(result.modules) = Len(modules)
        /\ \A i \in 1..Len(modules) :
             LET r == result.modules[i] IN
             /\ r.module = modules[i]
             /\ (Raised(i) =>
                   r.error.set /\ r.error.message # "" /\ r.findings = <<>>)
             /\ (~Raised(i) /\ Registered(r.module) =>
                   r.findings = Analyze(r.module, r.rawData, threatDB, 0).findings))

\* run() is never stuck before its return: outside the analyze() call, which
\* RunAnalyzer takes whatever it yields, some step of run() is possible.
Proceeds ==
  pc \in {"constructed", "loop", "try", "complete", "push"} =>
    ENABLED (Run \/ ModuleStart \/ RegistryMiss \/ CollectReturns \/ CollectThrows
             \/ ModuleComplete \/ PushResult \/ Finish)

\* C1: per-module fault isolation. For every request and every choice of
\* the modules whose Collector or Analyzer raises, run() is not ended by the
\* exception: the try block is always left for the code after it, run()
\* goes on to return, and what it returns is as Isolated says.
C1_FaultIsolation ==
  /\ [](Isolated /\ Proceeds)
  /\ [][(pc \in {"try", "analyze"}) => (pc' \in {"analyze", "complete"})]_vars

\* C1 witness: a returned scan of two modules in which the first raised and
\* the second did not and produced findings.
C1_Witness ==
  /\ result.returned
  /\ Len(modules) = 2
  /\ Raised(1)
  /\ ~Raised(2)
  /\ result.modules[2].findings # <<>>

\* C2: result.findings is the concatenation of the modules' findings in
\* request order, each module's findings in the order its Analyzer pushed
\* them: the list is not re-sorted.
C2_FindingsConcatenated ==
  /\ allFindings = Concatenated(moduleResults, Len(moduleResults))
  /\ (result.returned =>
        result.findings = Concatenated(result.modules, Len(result.modules)))

\* C2 witness: a returned scan where both modules have findings, the two
\* lists differ, and a less severe finding comes before a more severe one.
C2_Witness ==
  /\ result.returned
  /\ Len(result.modules) = 2
  /\ result.modules[1].findings # <<>>
  /\ result.modules[2].findings # <<>>
  /\ result.modules[1].findings # result.modules[2].findings
  /\ \E i, j \in 1..Len(result.findings) :
       i < j /\ result.findings[i].severity < result.findings[j].severity

\* C3: summary.total is the sum of the five severity buckets and the length
\* of result.findings, also when a module failed.
C3_TotalIsSumIsLength ==
  result.returned =>
    LET s == result.summary IN
    /\ s.total = s.critical + s.high + s.medium + s.low + s.info
    /\ s.total = Len(result.findings)

\* C3 witness: a returned scan with a failed module and findings in at least
\* two buckets, one of them INFO.
C3_Witness ==
  /\ result.returned
  /\ \E i \in 1..Len(result.modules) : result.modules[i].error.set
  /\ result.summary.info > 0
  /\ result.summary.total > result.summary.info

\* The severities present among the findings fs.
Present(fs) == {fs[i].severity : i \in 1..Len(fs)}

\* C4: summary.status is decided by which severities are present among the
\* findings, highest first, and by nothing else: COMPROMISED if CRITICAL is
\* present, else THREATS_FOUND if HIGH, else WARNINGS if MEDIUM, else
\* INFORMATIONAL if LOW or INFO, else CLEAN.
C4_StatusLadder ==
  result.returned =>
    LET P == Present(result.findings) IN
    result.summary.status =
      IF CRITICAL \in P THEN "COMPROMISED"
      ELSE IF HIGH \in P THEN "THREATS_FOUND"
      ELSE IF MEDIUM \in P THEN "WARNINGS"
      ELSE IF LOW \in P \/ INFO \in P THEN "INFORMATIONAL"
      ELSE "CLEAN"

\* C4 witness: a returned scan in which a lower bucket holds more findings
\* than the highest non-empty one.
C4_Witness ==
  /\ result.returned
  /\ result.summary.critical = 0
  /\ result.summary.high > 0
  /\ result.summary.medium > result.summary.high

\* C5 (as stated): the exit code is 3 for a highest severity of CRITICAL or
\* HIGH, 2 for MEDIUM, 1 for LOW or INFO, and 0 for a scan without findings.
C5_ExitCodeAsDocumented ==
  pc = "exited" =>
    LET P == Present(result.findings) IN
    exitCode =
      IF CRITICAL \in P \/ HIGH \in P THEN 3
      ELSE IF MEDIUM \in P THEN 2
      ELSE IF LOW \in P \/ INFO \in P THEN 1
      ELSE 0

\* The event sequences one module can leave behind.
ModuleShapes ==
  {<<<<"start", "signalled">>, <<"collect", "returned">>, <<"analyze", "returned">>,
     <<"complete", "signalled">>, <<"append", "pushed">>>>,
   <<<<"start", "signalled">>, <<"collect", "returned">>, <<"analyze", "threw">>,
     <<"complete", "signalled">>, <<"append", "pushed">>>>,
   <<<<"start", "signalled">>, <<"collect", "threw">>,
     <<"complete", "signalled">>, <<"append", "pushed">>>>,
   <<<<"start", "signalled">>, <<"complete", "signalled">>, <<"append", "pushed">>>>}

Appended(i) ==
  \E k \in 1..Len(events) : events[k].pos = i /\ events[k].ev = "append"
CountOf(i, step) == Len(SelectSeq(EventsOf(i), LAMBDA e : e.ev = step))

Unreadable(f) == dataFiles[f] \in {"missing", "badJSON", "null"}

\* The scan never got past the constructor: nothing was signalled or run.
NothingRan ==
  /\ pc \in {"new", "crashed"}
  /\ events = <<>>
  /\ moduleResults = <<>>
  /\ progress.completedCount = 0
  /\ ~result.returned
  /\ threatDB = JSUndefined

\* C7 (as stated): when any of the six data files is missing or malformed,
\* construction fails and no module is started, collected or analyzed.
C7_AnyDamagedFileAborts ==
  (\E f \in DataFileName : dataFiles[f] # "ok") => NothingRan

\* C7 (amended): when any of the six data files is missing or is not
\* parseable as JSON (or parses to null), construction fails and no module
\* is started, collected or analyzed.
C7_UnreadableFileAborts ==
  /\ ((\E f \in DataFileName : Unreadable(f)) => NothingRan)
  /\ (pc = "crashed" => error.set /\ error.message # "")

\* C7 witness: the constructor has thrown on a file that is not JSON while
\* modules were requested.
C7_Witness ==
  /\ pc = "crashed"
  /\ \E f \in DataFileName : dataFiles[f] = "badJSON"
  /\ Len(modules) > 0

\* C8 (as stated): a ModuleResult has an error if and only if the module's
\* Collector or Analyzer threw.
C8_ErrorIffThrew ==
  \A i \in 1..Len(moduleResults) : moduleResults[i].error.set <=> Raised(i)

\* C8 (amended): a ModuleResult has an error if and only if the module's
\* Collector or Analyzer threw or the module's name is in neither registry;
\* a module with an error is still in result.modules, at its place, with
\* empty findings; a module whose Collector and Analyzer both returned has
\* no error.
C8_ErrorIffThrewOrUnregistered ==
  /\ \A i \in 1..Len(moduleResults) :
       LET r == moduleResults[i] IN
       /\ r.module = modules[i]
       /\ (r.error.set <=> (Raised(i) \/ ~Registered(r.module)))
       /\ (r.error.set => r.findings = <<>> /\ r.error.message # "")
       /\ (Returned(i, "collect") /\ Returned(i, "analyze") => ~r.error.set)
  /\ (result.returned =>
        result.modules = moduleResults /\ Len(result.modules) = Len(modules))

\* C8 witness: a returned scan with an unregistered module, which has an
\* error although nothing threw, and a module whose Analyzer threw.
C8_Witness ==
  /\ result.returned
  /\ \E i \in 1..Len(result.modules) :
       result.modules[i].error.set /\ ~Raised(i)
  /\ \E i \in 1..Len(result.modules) :
       result.modules[i].error.set /\ Returned(i, "collect") /\ Raised(i)

\* C9 (as stated): analyze() does not throw, whatever field of the
\* collector output or of one of its records is missing or of another shape.
C9_AnalyzeNeverThrows ==
  \A k \in 1..Len(calls) : ~calls[k].threw

\* The id prefix of each analyzer of the registry.
IdPrefix(m) ==
  CASE m = "processes" -> "PROC"
    [] m = "ssh" -> "SSH"
    [] m = "systemd" -> "SVC"
    [] m = "firewall" -> "FW"
    [] m = "rootkit" -> "RK"
    [] m = "credentials" -> "CRED"
    [] m = "shell" -> "SHELL"
    [] m = "crontabs" -> "CRON"
    [] m = "network" -> "NET"
    [] m = "filesystem" -> "FS"

\* C10: analyzer idempotence. All calls of analyze() on one instance with
\* the same collector output and the same store have the same outcome, and
\* the ids of every returned list are PREFIX-001, PREFIX-002, ... from 001.
C10_Idempotent ==
  /\ \A k, l \in 1..Len(calls) : calls[k] = calls[l]
  /\ \A k \in 1..Len(calls) :
       \A n \in 1..Len(calls[k].findings) :
         calls[k].findings[n].id = IdPrefix(subject.module) \o "-" \o PadStart3(n)

\* C10 witness: analyze() was called again on well-formed collector output
\* after a call that returned several findings.
C10_Witness ==
  /\ Len(calls) >= 2
  /\ subject.data \in CollectorOutputs(subject.module)
  /\ ~calls[1].threw
  /\ Len(calls[1].findings) >= 2
\* The three-digit ordinals, written out.
Ordinal ==
  <<"001", "002", "003", "004", "005", "006", "007", "008", "009", "010", "011", "012">>

\* C11: the k-th finding of every list an Analyzer returns has the id
\* PREFIX-kkk, k counted from 1 and zero-padded to three digits; the ids of
\* a list have no gap and no repeat, whichever rules fired on which record;
\* ordinals of two and three digits are padded to three as well.
C11_IdsContiguous ==
  /\ \A c \in 1..Len(calls) :
       LET fs == calls[c].findings IN
       /\ \A k \in 1..Len(fs) : fs[k].id = IdPrefix(subject.module) \o "-" \o Ordinal[k]
       /\ \A k, l \in 1..Len(fs) : k # l => fs[k].id # fs[l].id
  /\ IdOf("SVC", 3) = "SVC-003"
  /\ IdOf("CRON", 12) = "CRON-012"
  /\ IdOf("PROC", 123) = "PROC-123"

\* C11 witness: a systemd analysis of well-formed collector output that
\* returned at least three findings from more than one rule.
C11_Witness ==
  /\ Len(calls) >= 1
  /\ subject.module = "systemd"
  /\ subject.data \in SystemdOutputs
  /\ ~calls[1].threw
  /\ Len(calls[1].findings) >= 3
  /\ \E k, l \in 1..Len(calls[1].findings) :
       calls[1].findings[k].title # calls[1].findings[l].title

\* C12 (as stated): in every scan result, whatever list of modules was
\* requested, no two findings of the same module have the same id.
C12_IdsUniquePerModule ==
  result.returned =>
    \A i, j \in 1..Len(result.findings) :
      (i # j /\ result.findings[i].module = result.findings[j].module)
        => result.findings[i].id # result.findings[j].id

\* The calls of one lookup recorded so far.
CallsOf(fn) == {c \in 1..Len(calls) : calls[c].fn = fn}

\* Whether the ports table has an entry for port p with a direction in D.
StoredPort(p, D) ==
  \E i \in 1..Len(threatDB.ports.a) :
    threatDB.ports.a[i].port = p /\ threatDB.ports.a[i].direction \in D

\* C13 (as stated): matchPort(p, "outbound") returns a stored entry for
\* port p whose direction is "outbound"; matchPort(p, "listening") returns
\* null unless some stored entry for port p has direction exactly
\* "listening".
C13_ListeningNeedsListeningEntry ==
  \A c \in CallsOf("matchPort") :
    LET q == calls[c].args IN
    /\ (q.direction = "outbound" /\ StoredPort(q.port, {"outbound"}) =>
          /\ calls[c].found
          /\ calls[c].entry.port = q.port
          /\ calls[c].entry.direction = "outbound")
    /\ (q.direction = "listening" /\ calls[c].found =>
          StoredPort(q.port, {"listening"}))

\* C13 (amended): matchPort(p, "outbound") returns a stored entry for port
\* p whose direction is "outbound", and null when there is none;
\* matchPort(p, "listening") returns null unless some stored entry for port
\* p has direction "listening" or "outbound", and returns an entry for
\* port p with one of these directions otherwise.
C13_ListeningNeedsListeningOrOutbound ==
  \A c \in CallsOf("matchPort") :
    LET q == calls[c].args IN
    /\ ~calls[c].threw
    /\ (q.direction = "outbound" =>
          /\ calls[c].found <=> StoredPort(q.port, {"outbound"})
          /\ calls[c].found =>
               calls[c].entry.port = q.port /\ calls[c].entry.direction = "outbound")
    /\ (q.direction = "listening" =>
          /\ calls[c].found <=> StoredPort(q.port, {"listening", "outbound"})
          /\ calls[c].found =>
               /\ calls[c].entry.port = q.port
               /\ calls[c].entry.direction \in {"listening", "outbound"})

\* C13 witness: a "listening" query that returned an entry although no
\* entry for its port is stored with direction "listening".
C13_Witness ==
  \E c \in CallsOf("matchPort") :
    /\ calls[c].args.direction = "listening"
    /\ calls[c].found
    /\ calls[c].entry.direction = "outbound"
    /\ ~StoredPort(calls[c].args.port, {"listening"})

\* Whether a stored port entry answers a query for port p in direction d,
\* as the claim words it.
Answers(e, p, d) ==
  /\ e.port = p
  /\ \/ e.direction = "outbound"
     \/ e.direction = "listening" /\ d = "listening"

\* The position of the first element of the sequence es that satisfies
\* Test, and 0 when there is none.
FirstWhere(es, Test(_)) ==
  IF \E i \in 1..Len(es) : Test(es[i])
  THEN CHOOSE i \in 1..Len(es) : Test(es[i]) /\ \A j \in 1..(i - 1) : ~Test(es[j])
  ELSE 0

\* C14: matchPort is asymmetric in the stored direction. An entry stored as
\* "outbound" answers queries of both directions on its port, an entry
\* stored as "listening" answers only "listening" queries and is never
\* returned for an "outbound" query; the first stored entry that answers
\* the query is the one returned, and null is returned when none does.
C14_AsymmetricFirstMatch ==
  \A c \in CallsOf("matchPort") :
    LET q == calls[c].args
        es == threatDB.ports.a
        first == FirstWhere(es, LAMBDA e : Answers(e, q.port, q.direction))
    IN /\ calls[c].found <=> first # 0
       /\ calls[c].found => calls[c].entry = es[first]
       /\ (q.direction = "outbound" /\ calls[c].found =>
             calls[c].entry.direction # "listening")

\* C14 witness: a "listening" query on a port with two stored entries that
\* answer it, of different directions; the first stored is returned.
C14_Witness ==
  \E c \in CallsOf("matchPort") :
    LET q == calls[c].args
        es == threatDB.ports.a
    IN /\ Len(es) = 2
       /\ q.direction = "listening"
       /\ Answers(es[1], q.port, q.direction)
       /\ Answers(es[2], q.port, q.direction)
       /\ es[1].direction = "listening"
       /\ es[2].direction = "outbound"
       /\ calls[c].entry = es[1]

\* A stored path with one trailing "/" removed.
WithoutTrailingSlash(p) ==
  IF p # <<>> /\ p[Len(p)] = "/" THEN SubSeq(p, 1, Len(p) - 1) ELSE p

\* Whether a stored path entry matches the candidate path p.
PathMatches(e, p) == IsPrefix(e.path, p) \/ p = WithoutTrailingSlash(e.path)

\* C15: matchPath(p) returns an entry if and only if some stored entry's
\* path is a string prefix of p or p equals that stored path with one
\* trailing slash removed, and the entry returned is the first such entry
\* in stored order.
C15_PathPrefixOrStripped ==
  \A c \in CallsOf("matchPath") :
    LET p == calls[c].args.filePath
        es == threatDB.paths.a
        first == FirstWhere(es, LAMBDA e : PathMatches(e, p))
    IN /\ ~calls[c].threw
       /\ calls[c].found <=> first # 0
       /\ calls[c].found => calls[c].entry = es[first]

\* C15 witness: the bare directory path matched a stored directory prefix
\* that ends in "/", which is not a prefix of it, and a file under the
\* stored prefix is matched by the same store.
C15_Witness ==
  \E c \in CallsOf("matchPath") :
    /\ calls[c].args.filePath = <<"/","e","t","c","/","d","a","t","a">>
    /\ calls[c].found
    /\ calls[c].entry.path = <<"/","e","t","c","/","d","a","t","a","/">>
    /\ ~IsPrefix(calls[c].entry.path, calls[c].args.filePath)
    /\ matchPath(threatDB, <<"/","e","t","c","/","d","a","t","a","/","l","i","b","s","y","s","t","e","m",".","s","o">>).found

\* Whether a stored process rule matches the lowercased "name cmdline":
\* a plain rule when its lowercased pattern is a substring, a flagged rule
\* when one of its alternatives occurs, letter case ignored.
RuleMatches(e, name, cmdline) ==
  LET text == ToLowerCase(name \o <<" ">> \o cmdline) IN
  IF e.regex THEN RegExpTestI(e.pattern, text)
  ELSE \E i \in 0..Len(text) : OccursAt(text, ToLowerCase(e.pattern), i)

\* C16: matchProcess(name, commandLine) returns the first rule, in stored
\* order, that matches the lowercased "name commandLine" (substring for a
\* plain rule, pattern match for a flagged rule), so an earlier matching
\* rule shadows a later one; it returns null only when no rule matches.
C16_FirstRuleWins ==
  \A c \in CallsOf("matchProcess") :
    LET q == calls[c].args
        es == threatDB.processes.a
        first == FirstWhere(es, LAMBDA e : RuleMatches(e, q.name, q.cmdline))
    IN /\ ~calls[c].threw
       /\ calls[c].found <=> first # 0
       /\ calls[c].found => calls[c].entry = es[first]
       /\ ~calls[c].found => calls[c].entry = JSNull

\* C16 witness: a query in upper case that two stored rules match, a
\* flagged one stored before a plain one; the flagged rule is returned.
C16_Witness ==
  \E c \in CallsOf("matchProcess") :
    LET q == calls[c].args
        es == threatDB.processes.a
    IN /\ Len(es) = 2
       /\ q.name = <<"X","M","R","i","g">>
       /\ es[1].regex /\ ~es[2].regex
       /\ RuleMatches(es[1], q.name, q.cmdline)
       /\ RuleMatches(es[2], q.name, q.cmdline)
       /\ calls[c].entry = es[1]

\* The lines of a preload file that are neither empty nor comments, each
\* trimmed, in file order.
LibraryLines(content) ==
  LET lines == SplitLines(content)
      trimmed == [i \in 1..Len(lines) |-> Trim(lines[i])]
  IN SelectSeq(trimmed, LAMBDA l : l # <<>> /\ l[1] # "#")

\* The preload findings among fs.
PreloadFindings(fs) == SelectSeq(fs, LAMBDA f : f.title = "LD_PRELOAD rootkit detected")

\* C17 (as stated): the rootkit analyzer emits exactly one CRITICAL preload
\* finding when the preload content has at least one non-empty, non-comment
\* line, its details.entries being exactly those lines, trimmed, in file
\* order; and it emits no preload finding when the content has no such line
\* (empty, white space only, or comment lines only).
C17_PreloadFindingIffLibraryLine ==
  \A c \in 1..Len(calls) :
    (/\ subject.module = "rootkit"
     /\ ~calls[c].threw
     /\ Prop(subject.data, "ldPreload").k = "string") =>
      LET lines == LibraryLines(Prop(subject.data, "ldPreload").s)
          pre == PreloadFindings(calls[c].findings)
      IN IF lines # <<>>
         THEN /\ Len(pre) = 1
              /\ pre[1].severity = CRITICAL
              /\ pre[1].details.entries = lines
         ELSE pre = <<>>

\* The number of findings among fs with the given severity and title.
HowMany(fs, severity, title) ==
  Len(SelectSeq(fs, LAMBDA f : f.severity = severity /\ f.title = title))

\* Whether an sshd_config directive read by the collector is "yes"; the
\* collector keeps the letter case of the file and the analyzer ignores it.
IsYes(v) == v.k = "string" /\ ToLowerCase(v.s) = <<"y","e","s">>

C19_InactiveUfwBothFindings ==
  \A c \in 1..Len(calls) :
    LET ufw == Coalesce(Prop(subject.data, "ufw"),
                 JSObject([active |-> JSBoolean(FALSE), rules |-> JSString(<<>>)]))
        fs == calls[c].findings
    IN (subject.module = "firewall" /\ ~Truthy(Prop(ufw, "active"))) =>
         /\ (subject.data \in FirewallOutputs \cup InactiveUfwOutputs => ~calls[c].threw)
         /\ (~calls[c].threw =>
               /\ HowMany(fs, HIGH, "UFW firewall is not active") = 1
               /\ HowMany(fs, MEDIUM, "SSH is not restricted by firewall") = 1)

\* C19 witness: UFW inactive, an iptables listing whose INPUT chain drops
\* port 22 under a DROP policy, fail2ban running with an sshd jail: the
\* two findings are the only ones.
C19_Witness ==
  /\ Len(calls) >= 1
  /\ subject.module = "firewall"
  /\ subject.data =
       FirewallData(FALSE, <<"S","t","a","t","u","s",":"," ","i","n","a","c","t","i","v","e">>, TRUE, <<JSString(<<"s","s","h","d">>)>>,
                    <<"C","h","a","i","n"," ","I","N","P","U","T"," ","(","p","o","l","i","c","y"," ","D","R","O","P",")","\n","D","R","O","P"," ","t","c","p"," ","0",".","0",".","0",".","0","/","0"," ","d","p","t",":","2","2">>)
  /\ ~calls[1].threw
  /\ Len(calls[1].findings) = 2

\* Whether d has the shape of the firewall CollectorResult's data: ufw with
\* a boolean and a string, fail2ban with a boolean, a list of non-empty
\* trimmed names and a string, and the iptables text.
FirewallShaped(d) ==
  /\ d.k = "object"
  /\ DOMAIN d.o = {"ufw", "fail2ban", "iptables"}
  /\ d.o.ufw.o.active.k = "boolean"
  /\ d.o.ufw.o.rules.k = "string"
  /\ d.o.fail2ban.o.running.k = "boolean"
  /\ d.o.fail2ban.o.jails.k = "array"
  /\ \A j \in 1..Len(d.o.fail2ban.o.jails.a) :
       LET name == d.o.fail2ban.o.jails.a[j] IN
       name.k = "string" /\ name.s # <<>> /\ Trim(name.s) = name.s
  /\ d.o.fail2ban.o.sshdStatus.k = "string"
  /\ d.o.iptables.k = "string"

\* The text execSync had captured, without surrounding white space.
Captured(outcome) ==
  IF outcome.stdout.k = "string" THEN Trim(outcome.stdout.s) ELSE <<>>

\* C20: whichever of its commands fail, time out or return empty or partial
\* output, collect() returns a CollectorResult and does not raise, a failed
\* command leaving its part of the data inactive or empty-handed; exec()
\* does not raise either, and reports a failure or a timeout as success =
\* false with the stdout that was captured, and a normal exit as success =
\* true with exit code 0.
C20_CollectNeverRaises ==
  \A c \in 1..Len(calls) :
    LET r == calls[c].returned
        o == calls[c].outcome
    IN /\ ~r.threw
       /\ (calls[c].fn = "exec" =>
             /\ r.stdout = Captured(o)
             /\ r.success <=> o.kind = "returned"
             /\ r.success => r.exitCode = 0
             /\ ~r.success =>
                  r.exitCode = IF o.status.k = "number" THEN o.status.n ELSE 1)
       /\ (calls[c].fn = "collect" =>
             /\ FirewallShaped(r.data)
             /\ r.data.o.ufw.o.rules.s = Captured(o.ufw)
             /\ r.data.o.iptables.s = Captured(o.iptables)
             /\ r.data.o.fail2ban.o.sshdStatus.s = Captured(o.f2bSshd)
             /\ (o.ufw.kind = "threw" => ~r.data.o.ufw.o.active.b)
             /\ (o.f2bStatus.kind = "threw" =>
                   /\ ~r.data.o.fail2ban.o.running.b
                   /\ r.data.o.fail2ban.o.jails.a = <<>>))

\* C20 witness: collect() has returned although every one of its four
\* commands failed, two of them with partial output captured.
C20_Witness ==
  \E c \in 1..Len(calls) :
    /\ calls[c].fn = "collect"
    /\ \A command \in DOMAIN calls[c].outcome : calls[c].outcome[command].kind = "threw"
    /\ calls[c].outcome.ufw.stdout = JSString(<<"S","t","a","t","u","s",":"," ","a","c","t","i","v","e","\n">>)
    /\ calls[c].outcome.iptables.stdout = JSString(<<"C","h","a","i","n"," ","I","N","P","U","T"," ","(","p","o","l">>)
    /\ ~calls[c].returned.threw
    /\ calls[c].returned.data.o.iptables.s = <<"C","h","a","i","n"," ","I","N","P","U","T"," ","(","p","o","l">>

\* Whether some line of a UFW rules text mentions 22 or ssh as a word and
\* has both ALLOW IN and Anywhere, letter case ignored except for 22.
OpensSshToAnywhere(rules) ==
  \E i \in 1..Len(SplitLines(rules)) :
    LET line == SplitLines(rules)[i]
        lower == ToLowerCase(line)
    IN /\ HasWord(line, <<"2","2">>) \/ HasWord(lower, <<"s","s","h">>)
       /\ HasSpaced(lower, <<"a","l","l","o","w">>, <<"i","n">>)
       /\ \E o \in 0..Len(lower) : OccursAt(lower, <<"a","n","y","w","h","e","r","e">>, o)

\* C21: the SSH-open decision of the firewall analyzer has a fixed
\* precedence. With UFW active and a rules text, the MEDIUM finding is
\* emitted iff some rules line that mentions 22 or ssh has both ALLOW IN
\* and Anywhere, whatever iptables says; iptables counts only when UFW is
\* not active, and with UFW not active the finding is emitted in every
\* case.
C21_SshOpenPrecedence ==
  \A c \in 1..Len(calls) :
    (/\ subject.module = "firewall"
     /\ subject.data \in FirewallOutputs \cup InactiveUfwOutputs \cup ActiveUfwOutputs) =>
      LET ufw == subject.data.o.ufw.o
          open == HowMany(calls[c].findings, MEDIUM,
                          "SSH is not restricted by firewall")
      IN /\ ~calls[c].threw
         /\ (ufw.active.b /\ ufw.rules.s # <<>> =>
               open = IF OpensSshToAnywhere(ufw.rules.s) THEN 1 ELSE 0)
         /\ (~ufw.active.b => open = 1)

\* C21 witness: UFW is active with rules that restrict port 22 while the
\* iptables INPUT policy is ACCEPT; the finding is not emitted.
C21_Witness ==
  /\ Len(calls) >= 1
  /\ subject.module = "firewall"
  /\ subject.data =
       FirewallData(TRUE, <<"S","t","a","t","u","s",":"," ","a","c","t","i","v","e","\n","2","2","/","t","c","p"," ","A","L","L","O","W"," ","I","N"," ","1","0",".","0",".","0",".","0","/","8">>, TRUE,
                    <<JSString(<<"s","s","h","d">>)>>, <<"C","h","a","i","n"," ","I","N","P","U","T"," ","(","p","o","l","i","c","y"," ","A","C","C","E","P","T",")">>)
  /\ ~calls[1].threw
  /\ calls[1].findings = <<>>

\* The number of findings among fs with the given severity.
CountOfSeverity(fs, severity) == Len(SelectSeq(fs, LAMBDA f : f.severity = severity))

\* The collector output under analysis, when it is one of the samples of
\* the credentials collector: its four lists.
CredentialSample ==
  /\ subject.module = "credentials"
  /\ subject.data \in CredentialOutputs

\* C22 (as stated): the credentials analyzer emits one MEDIUM finding per
\* env-style file, one HIGH finding per service-account key, one MEDIUM
\* finding when the git-credentials file is present, and one INFO finding
\* per private key: the number of INFO findings equals the number of
\* discovered private keys.
C22_InfoPerPrivateKey ==
  \A c \in 1..Len(calls) :
    CredentialSample =>
      LET d == subject.data.o
          fs == calls[c].findings
      IN /\ ~calls[c].threw
         /\ CountOfSeverity(fs, MEDIUM) =
              Len(d.envFiles.a) + (IF d.gitCredentials.k = "string" THEN 1 ELSE 0)
         /\ CountOfSeverity(fs, HIGH) = Len(d.serviceAccountKeys.a)
         /\ CountOfSeverity(fs, INFO) = Len(d.sshPrivateKeys.a)

\* C22 (amended): one MEDIUM finding per env-style file, one HIGH finding
\* per service-account key, one MEDIUM finding when the git-credentials
\* file is present, and a single INFO finding when at least one private
\* key was discovered, whatever their number, which carries the count and
\* the paths of all of them.
C22_OneInfoForAllPrivateKeys ==
  \A c \in 1..Len(calls) :
    CredentialSample =>
      LET d == subject.data.o
          fs == calls[c].findings
          info == SelectSeq(fs, LAMBDA f : f.severity = INFO)
      IN /\ ~calls[c].threw
         /\ CountOfSeverity(fs, MEDIUM) =
              Len(d.envFiles.a) + (IF d.gitCredentials.k = "string" THEN 1 ELSE 0)
         /\ CountOfSeverity(fs, HIGH) = Len(d.serviceAccountKeys.a)
         /\ Len(info) = (IF d.sshPrivateKeys.a # <<>> THEN 1 ELSE 0)
         /\ (info # <<>> =>
               /\ info[1].details.count = Len(d.sshPrivateKeys.a)
               /\ info[1].details.paths = d.sshPrivateKeys.a)

\* C22 witness: an analysis of three discovered private keys has returned
\* one INFO finding.
C22_Witness ==
  /\ Len(calls) >= 1
  /\ CredentialSample
  /\ Len(subject.data.o.sshPrivateKeys.a) = 3
  /\ CountOfSeverity(calls[1].findings, INFO) = 1

CrontabTexts(d) ==
  <<[label |-> <<"root crontab">>, content |-> d.rootCrontab.s],
    [label |-> <<"/etc/crontab">>, content |-> d.systemCrontab.s]>>
  \o [i \in 1..Len(d.cronDirs.a) |->
        [label |-> <<"name", d.cronDirs.a[i].o.name>>,
         content |-> d.cronDirs.a[i].o.content.s]]
  \o [i \in 1..Len(d.userCrontabs.a) |->
        [label |-> <<"user", d.userCrontabs.a[i].o.user>>,
         content |-> d.userCrontabs.a[i].o.content.s]]

\* The titles of the four crontab rules, in the order they are evaluated.
CrontabTitles ==
  <<"Crontab downloads and executes remote code",
    "Crontab contains base64-encoded command",
    "Crontab runs binary from temporary directory",
    "Crontab runs binary from hidden directory">>

\* C24: the crontab analyzer evaluates its rules independently on every
\* line that is not blank, not a comment and not a variable assignment, in
\* source order (root crontab, system crontab, cron.d files, user
\* crontabs): download piped to a shell gives CRITICAL, base64 decoding
\* HIGH, a temporary-directory path HIGH, and a hidden-directory path HIGH
\* only if the temporary-directory rule did not fire on that line; a line
\* can yield several findings and a skipped line yields none.
C24_CrontabRulesPerLine ==
  \A c \in 1..Len(calls) :
    (subject.module = "crontabs" /\ subject.data \in CrontabOutputs \cup CrontabHosts) =>
      LET texts == CrontabTexts(subject.data.o)
          fs == calls[c].findings
          SourceOf(f) == CHOOSE s \in 1..Len(texts) : texts[s].label = f.details.source
          RuleOf(f) == CHOOSE r \in 1..4 : CrontabTitles[r] = f.title
          Key(f) == <<SourceOf(f), f.details.lineNumber, RuleOf(f)>>
          Before(a, b) ==
            \/ a[1] < b[1]
            \/ a[1] = b[1] /\ a[2] < b[2]
            \/ a[1] = b[1] /\ a[2] = b[2] /\ a[3] < b[3]
          Fires(r, line) ==
            CASE r = 1 -> DownloadPipeTest(line)
              [] r = 2 -> Base64Test(line)
              [] r = 3 -> TmpExecMatch(line) # <<>>
              [] r = 4 -> HiddenDirExecMatch(line) # <<>> /\ TmpExecMatch(line) = <<>>
      IN /\ ~calls[c].threw
         /\ \A i \in 1..Len(fs) :
              /\ \E s \in 1..Len(texts) : texts[s].label = fs[i].details.source
              /\ \E r \in 1..4 : CrontabTitles[r] = fs[i].title
              /\ fs[i].severity = IF RuleOf(fs[i]) = 1 THEN CRITICAL ELSE HIGH
         /\ \A i \in 1..(Len(fs) - 1) : Before(Key(fs[i]), Key(fs[i + 1]))
         /\ \A s \in 1..Len(texts) :
              LET lines == SplitLines(texts[s].content) IN
              \A n \in 1..Len(lines), r \in 1..4 :
                LET line == Trim(lines[n]) IN
                (\E i \in 1..Len(fs) : Key(fs[i]) = <<s, n, r>>)
                  <=> (/\ line # <<>>
                       /\ line[1] # "#"
                       /\ ~CrontabSkipped(line)
                       /\ Fires(r, line))

\* C24 witness: the analysis of a host with a root crontab, a system
\* crontab, one cron.d file and two user crontabs has returned nine
\* findings: lines that fire two rules give two findings, the line under
\* /tmp/.c only the temporary-directory one, and the comment, blank and
\* assignment lines none.
C24_Witness ==
  /\ Len(calls) >= 1
  /\ subject.module = "crontabs"
  /\ subject.data \in CrontabHosts
  /\ [i \in 1..Len(calls[1].findings) |-> calls[1].findings[i].severity]
       = <<CRITICAL, HIGH, CRITICAL, HIGH, HIGH, CRITICAL, HIGH, HIGH, HIGH>>
  /\ calls[1].findings[2].details.path = <<"/","t","m","p","/",".","c","/","r","u","n">>
  /\ calls[1].findings[2].title = CrontabTitles[3]
  /\ calls[1].findings[5].details.path = <<"/",".","h","i","d","/","s","t","a","r","t">>
  /\ calls[1].findings[9].details.path = <<"/","v","a","r","/","t","m","p","/","o",";">>

\* The titles of the five network rules: three per connection, two per
\* listening port.
NetworkTitles ==
  <<"Connection to known malicious IP: ${conn.remoteAddr}",
    "Outbound connection to suspicious port ${conn.remotePort}",
    "Outbound connection to botnet-associated port ${conn.remotePort}",
    "Suspicious listening port ${lp.localPort}",
    "High port ${lp.localPort} listening on all interfaces">>

\* C25: the network analyzer evaluates, independently for each
\* connection, the remote-IP threat lookup, the outbound port threat match
\* and the botnet-port rule (remote port 23, 2323 or 37215 gives HIGH), and
\* for each listening entry the listening port threat match and the rule
\* that a port strictly above 1024 bound to an any-interface address gives
\* INFO; every finding of a connection precedes every finding of a
\* listening entry.
C25_NetworkRules ==
  \A c \in 1..Len(calls) :
    (subject.module = "network" /\ subject.data \in NetworkOutputs \cup NetworkHosts) =>
      LET conns == subject.data.o.connections.a
          ports == subject.data.o.listening.a
          fs == calls[c].findings
          RuleOf(f) == CHOOSE r \in 1..5 : NetworkTitles[r] = f.title
          OfConnection(f) == "connection" \in DOMAIN f.details
          IndexOf(f) ==
            IF OfConnection(f)
            THEN CHOOSE i \in 1..Len(conns) : conns[i] = f.details.connection
            ELSE Len(conns) + (CHOOSE i \in 1..Len(ports) : ports[i] = f.details.listening)
          Before(f, g) ==
            \/ IndexOf(f) < IndexOf(g)
            \/ IndexOf(f) = IndexOf(g) /\ RuleOf(f) < RuleOf(g)
          Has(record, r) ==
            \E i \in 1..Len(fs) :
              /\ RuleOf(fs[i]) = r
              /\ IF r <= 3 THEN OfConnection(fs[i]) /\ fs[i].details.connection = record
                 ELSE ~OfConnection(fs[i]) /\ fs[i].details.listening = record
          Stored(port, directions) ==
            {i \in 1..Len(PortEntries) :
               PortEntries[i].port = port /\ PortEntries[i].direction \in directions}
      IN /\ ~calls[c].threw
         /\ \A i \in 1..Len(fs) :
              /\ \E r \in 1..5 : NetworkTitles[r] = fs[i].title
              /\ OfConnection(fs[i]) <=> RuleOf(fs[i]) <= 3
              /\ RuleOf(fs[i]) = 3 => fs[i].severity = HIGH
              /\ RuleOf(fs[i]) = 5 => fs[i].severity = INFO
              /\ RuleOf(fs[i]) \in {1, 2, 4} =>
                   fs[i].severity = toSeverity(fs[i].details.threat.severity)
         /\ \A i \in 1..(Len(fs) - 1) : Before(fs[i], fs[i + 1])
         /\ \A i, j \in 1..Len(fs) :
              OfConnection(fs[i]) /\ ~OfConnection(fs[j]) => i < j
         /\ \A k \in 1..Len(conns) :
              /\ Has(conns[k], 1) <=>
                   \E e \in 1..Len(IPEntries) : IPEntries[e].key = conns[k].o.remoteAddr.s
              /\ Has(conns[k], 2) <=> Stored(conns[k].o.remotePort.n, {"outbound"}) # {}
              /\ Has(conns[k], 3) <=> conns[k].o.remotePort.n \in {23, 2323, 37215}
         /\ \A k \in 1..Len(ports) :
              /\ Has(ports[k], 4) <=>
                   Stored(ports[k].o.localPort.n, {"listening", "outbound"}) # {}
              /\ Has(ports[k], 5) <=>
                   /\ ports[k].o.localPort.n > 1024
                   /\ ports[k].o.localAddr.s \in {<<"0",".","0",".","0",".","0">>, <<"*">>, <<":",":">>}

\* C25 witness: the analysis of five connections and six listening ports
\* has returned five connection findings followed by five listening
\* findings; the connection to a listed IP on port 23 gave two findings,
\* the listening port 4444 on 0.0.0.0 two, and port 1024 none.
C25_Witness ==
  /\ Len(calls) >= 1
  /\ subject.module = "network"
  /\ subject.data \in NetworkHosts
  /\ [i \in 1..Len(calls[1].findings) |-> calls[1].findings[i].severity]
       = <<HIGH, HIGH, HIGH, HIGH, HIGH, CRITICAL, INFO, HIGH, INFO, INFO>>
  /\ calls[1].findings[2].title = NetworkTitles[3]
  /\ calls[1].findings[5].details.connection.o.process.s = <<"c","5">>
  /\ calls[1].findings[6].details.listening.o.process.s = <<"l","1">>

\* The predicates of the four process rules on a command line, and the
\* number of findings with the given title that a list holds for it.
ProcessPredicates(command) ==
  LET binary == extractBinaryPath(command) IN
  [threat |-> \E e \in 1..Len(ProcessEntries) :
                RuleMatches(ProcessEntries[e], FirstToken(command), command),
   temp |-> \E p \in {<<"/","t","m","p","/">>, <<"/","v","a","r","/","t","m","p","/">>, <<"/","d","e","v","/","s","h","m","/">>} : StartsWith(binary, p),
   hidden |-> /\ HiddenDirTest(binary)
              /\ HiddenDirName(binary) \notin SAFE_HIDDEN_DIRS]

FindingsFor(fs, command, title) ==
  Len(SelectSeq(fs, LAMBDA f : f.details.command = command /\ f.title = title))

C27_NoCommandTwice ==
  \A i, j \in 1..Len(calls) :
    (calls[i].command = calls[j].command) => i = j

\* The findings whose description quotes the text of a matched line: the
\* shell findings and the first two crontab rules.
QuotesLine(f) ==
  \/ f.module = "shell"
  \/ f.module = "crontabs" /\ f.title \in {CrontabTitles[1], CrontabTitles[2]}

\* C28: every analyzer that embeds the text of a matched line in a finding
\* description truncates it to its first 150 characters; a text of 150
\* characters or fewer is embedded unchanged, and the full text is kept in
\* details.
C28_QuotedLineCutAt150 ==
  \A c \in 1..Len(calls) :
    (subject.data \in ShellOutputs \cup ShellHits \cup CrontabOutputs \cup CrontabHosts) =>
      \A i \in 1..Len(calls[c].findings) :
        LET f == calls[c].findings[i]
            full == IF f.module = "shell" THEN Trim(f.details.line.s) ELSE f.details.line
        IN QuotesLine(f) =>
             /\ Len(full) <= 150 => f.quoted = full
             /\ Len(full) > 150 =>
                  /\ SubSeq(f.quoted, 1, 150) = SubSeq(full, 1, 150)
                  /\ f.quoted # full

\* C29: when the requested modules are pairwise distinct, all finding ids
\* of the flattened result.findings are pairwise distinct across the whole
\* scan: the ten analyzers use ten different id prefixes (PROC, NET, SVC,
\* CRON, RK, SSH, SHELL, FS, FW, CRED) and number their own findings
\* contiguously.
C29_IdsDistinctAcrossScan ==
  /\ \A m, n \in ModuleName : m # n => IdPrefix(m) # IdPrefix(n)
  /\ {IdPrefix(m) : m \in ModuleName} =
       {"PROC", "NET", "SVC", "CRON", "RK", "SSH", "SHELL", "FS", "FW", "CRED"}
  /\ (/\ result.returned
      /\ \A a, b \in 1..Len(modules) : a # b => modules[a] # modules[b]) =>
       /\ \A i, j \in 1..Len(result.findings) :
            i # j => result.findings[i].id # result.findings[j].id
       /\ \A i \in 1..Len(result.findings) :
            \E k \in 1..Len(result.findings) :
              result.findings[i].id = IdOf(IdPrefix(result.findings[i].module), k)

\* C29 witness: a scan of two different modules has returned findings of
\* both, the first finding of each carrying its own prefix and the number
\* 001.
C29_Witness ==
  /\ result.returned
  /\ Len(modules) = 2
  /\ modules[1] # modules[2]
  /\ \E i, j \in 1..Len(result.findings) :
       /\ result.findings[i].module = modules[1]
       /\ result.findings[j].module = modules[2]
       /\ result.findings[i].id = IdOf(IdPrefix(modules[1]), 1)
       /\ result.findings[j].id = IdOf(IdPrefix(modules[2]), 1)

\* C30: rendering a scan result for the terminal leaves the result
\* unchanged: result.findings keeps its module-execution order after
\* renderTerminal returns, the display order being severity-descending and
\* computed on a copy, and findings of equal severity are displayed in
\* their original relative order.
C30_RenderLeavesResult ==
  \A c \in 1..Len(calls) :
    LET given == calls[c].given.findings
        lines == calls[c].lines
        At(f) == CHOOSE k \in 1..Len(lines) : lines[k].title = f.title
    IN /\ result = calls[c].given
       /\ Len(lines) = Len(given)
       /\ \A i \in 1..Len(given) :
            \E k \in 1..Len(lines) :
              lines[k] = [severity |-> given[i].severity, title |-> given[i].title]
       /\ \A k \in 1..(Len(lines) - 1) : lines[k].severity >= lines[k + 1].severity
       /\ \A i, j \in 1..Len(given) :
            (i < j /\ given[i].severity = given[j].severity) => At(given[i]) < At(given[j])

\* C30 witness: a result whose findings are INFO, HIGH, HIGH in execution
\* order has been rendered: the two HIGH lines come first, in their
\* execution order, and result.findings still starts with the INFO finding.
C30_Witness ==
  /\ Len(calls) = 1
  /\ Len(result.findings) = 3
  /\ result.findings[1].severity = INFO
  /\ result.findings[2].id = IdOf("FW", 1)
  /\ result.findings[3].id = IdOf("SSH", 1)
  /\ [k \in 1..3 |-> calls[1].lines[k].title] =
       <<"No active firewall", "Password authentication enabled",
         result.findings[1].title>>

====
